---- MODULE Spec2Model ----
(***************************************************************************)
(* Playback session of the iAinoKalo audio player.                         *)
(*                                                                         *)
(* The screens are React function components.  A handler sees the state    *)
(* of the render that defined it (its closure, here a record `env`); the   *)
(* state setters write the component state that the NEXT render will       *)
(* show.  An async handler runs atomically from one `await` to the next;   *)
(* every in-flight invocation is an entry of `tasks`, whose `pc` names     *)
(* the call it is suspended in.  The effect of the awaited call and the    *)
(* code up to the next `await` form one step.                              *)
(***************************************************************************)
EXTENDS Integers, Sequences, FiniteSets, TLC

\* Bounds of the model.
NumTracks == 3      \* musicFiles.length after the catalog has been loaded
MaxCalls  == 3      \* handler invocations during one run
MaxTasks  == 2      \* async invocations suspended at the same time
MaxNotifs == 2      \* notifications visible at the same time
MaxClock  == 4      \* the last reading of Date.now() during one run
PageSize  == 2      \* assets per page of the media library (`first: 100`)
MaxLoads  == 2      \* loads of the catalog during one run

NoSound == 0        \* null (Audio.Sound | null)
NoNotif == 0        \* null (notificationIdRef.current)
NoIndex == -1       \* the "none" position
NoTrack == -1       \* null (PlaylistItem | null)
NoCursor == -1      \* undefined (the `after` of the first page request)
NoPlaylist == [id |-> 0, title |-> "", tracks |-> <<>>]   \* null (Playlist | null)

VARIABLES
    currentSound,        \* useState<Audio.Sound | null>: a handle id or NoSound
    isPlaying,           \* useState(false)
    currentTrackIndex,   \* useState<number>(-1)
    shouldPlayNext,      \* useState(true)
    notificationIdRef,   \* useRef<string | null>(null)
    sounds,              \* every Audio.Sound created so far, by handle id
    visible,             \* notifications the OS shows
    tasks,               \* suspended async invocations, oldest first
    calls,               \* handler invocations so far
    screen,              \* the screen whose session runs: "player" or "playlist"
    currentTrack,        \* PlaylistScreen useState<PlaylistItem | null>: a track id
    currentIndex,        \* PlaylistScreen useState<number>(-1)
    playlists,           \* PlaylistScreen useState<Playlist[]>
    selectedPlaylist,    \* PlaylistScreen useState<Playlist | null>
    stored,              \* AsyncStorage item 'playlists'
    clock,               \* the latest reading of Date.now()
    listener,            \* PlaylistScreen: the render whose handler is the
                         \* registered notification listener
    mounted,             \* the screen is mounted: its cleanup has not run
    device,              \* the media library: permission, assets, metadata
    loader,              \* fetchAllAudioFiles: the call in flight and musicFiles
    single               \* PlaylistScreen, the single-playlist component:
                         \* useState `playlist` and the AsyncStorage item 'playlist'

vars == <<currentSound, isPlaying, currentTrackIndex, shouldPlayNext,
          notificationIdRef, sounds, visible, tasks, calls,
          screen, currentTrack, currentIndex, playlists, selectedPlaylist,
          stored, clock, listener, mounted, device, loader, single>>

\* The durable playlist collection and the clock playlist ids are read from.
store == <<stored, clock>>

\* The catalog and the collaborator it is loaded from.
catalog == <<device, loader>>

\* The state of the music player screen's session.
session == <<currentSound, isPlaying, currentTrackIndex, shouldPlayNext>>

\* What the music player screen never writes.
playlistOnly == <<screen, currentTrack, currentIndex, playlists, selectedPlaylist,
                  store, listener, mounted, catalog, single>>

\* What the playlist screen never writes.
playerOnly == <<screen, currentTrackIndex, shouldPlayNext, mounted, catalog, single>>

Tracks == 0 .. (NumTracks - 1)

\* JavaScript's remainder: the sign of the result is the sign of the dividend.
JsRem(a, b) == IF a >= 0 THEN a % b ELSE 0 - ((0 - a) % b)

\* The state a handler of the current render closes over.
Env == [cs  |-> currentSound,
        ip  |-> isPlaying,
        cti |-> currentTrackIndex,
        spn |-> shouldPlayNext,
        n   |-> NumTracks]

\* The closure of the first render: the notification listener is registered
\* once (useEffect with no dependencies) and keeps this one.
FirstRender == [cs  |-> NoSound,
                ip  |-> FALSE,
                cti |-> NoIndex,
                spn |-> TRUE,
                n   |-> 0]

\* expo-av's Sound._loaded: false from the call of unloadAsync on.
JsLoaded(h) == sounds[h].st \notin {"unloading", "unloaded"}

\* A handle that holds a native player: created and not yet released.
Open(h) == sounds[h].st # "unloaded"

OpenSounds == {h \in 1 .. Len(sounds) : Open(h)}

RemoveAt(s, i) == [j \in 1 .. (Len(s) - 1) |-> IF j < i THEN s[j] ELSE s[j + 1]]

SetPc(i, p) == [tasks EXCEPT ![i].pc = p]

\* What a suspended playSound (and the status callback it registers) still
\* reads of its render: currentSound, isPlaying and shouldPlayNext.
Closure(env) == [cs |-> env.cs, ip |-> env.ip, spn |-> env.spn, ci |-> NoIndex]

\* togglePlayPause reads currentSound and isPlaying, the callback's idle
\* branch nothing but its own sound.
ToggleClosure(env) == [cs |-> env.cs, ip |-> env.ip, spn |-> FALSE, ci |-> NoIndex]

NoClosure == [cs |-> NoSound, ip |-> FALSE, spn |-> FALSE, ci |-> NoIndex]

\* A suspended invocation.  active0 is the session's active handle at the
\* moment of the call, sound the Audio.Sound a status callback is bound to;
\* track is the track handed to a playSound that does not take it from its
\* queue.
\* via names the caller of playSound: "tap", "next", "previous" or, for the
\* status callback, "completion"; queue is the playlist handed to the
\* playlist screen's playSound.
TaskOf(op, pc, env, index, fromNext, sound, via, queue) ==
    [op |-> op, pc |-> pc, env |-> env, index |-> index, fromNext |-> fromNext,
     nid |-> NoNotif, active0 |-> currentSound, sound |-> sound,
     via |-> via, queue |-> queue, updated |-> <<>>, track |-> NoTrack]

Task(op, pc, env, index, fromNext, sound, via) ==
    TaskOf(op, pc, env, index, fromNext, sound, via, <<>>)

\* A released Audio.Sound: nothing of it is read again but that it is gone.
Unloaded == [st |-> "unloaded", idx |-> 0, fromNext |-> FALSE, env |-> NoClosure,
             queue |-> <<>>]

\* The collection loadPlaylists reads back from AsyncStorage: playlists an
\* earlier run has saved.
StoredPlaylists ==
    << [id |-> 1, title |-> "a", tracks |-> [k \in 1 .. NumTracks |-> k - 1]],
       [id |-> 2, title |-> "b", tracks |-> <<1>>] >>

\* The state of a component after its first render.
NoSession ==
    /\ currentSound = NoSound
    /\ isPlaying = FALSE
    /\ currentTrackIndex = NoIndex
    /\ shouldPlayNext = TRUE
    /\ notificationIdRef = NoNotif
    /\ sounds = <<>>
    /\ visible = {}
    /\ tasks = <<>>
    /\ calls = 0
    /\ currentTrack = NoTrack
    /\ currentIndex = NoIndex
    /\ selectedPlaylist = NoPlaylist
    /\ stored = StoredPlaylists
    /\ clock = Len(StoredPlaylists) + 1
    /\ listener = [cs |-> NoSound, ip |-> FALSE, ci |-> NoIndex, ct |-> NoTrack,
                   queue |-> <<>>]
    /\ mounted = TRUE

\* The state of the music player screen or of the playlist screen after its
\* first render and the load of its playlists.
SessionIdle ==
    /\ NoSession
    /\ screen \in {"player", "playlist"}
    /\ playlists = IF screen = "playlist" THEN StoredPlaylists ELSE <<>>
    /\ single = [playlist |-> <<>>, stored |-> <<>>]

\* A page of the media library: getAssetsAsync({ first, after }).
GetAssets(library, after) ==
    LET from == IF after = NoCursor
                THEN 0
                ELSE CHOOSE k \in 1 .. Len(library) : library[k] = after
        to == IF from + PageSize < Len(library) THEN from + PageSize
                                                ELSE Len(library) IN
    [assets      |-> SubSeq(library, from + 1, to),
     hasNextPage |-> to < Len(library),
     endCursor   |-> IF to = 0 THEN NoCursor ELSE library[to]]

\* The catalog of a screen whose load has ended: the tracks in the order
\* of the media library.
LoadedCatalog ==
    /\ device = [status |-> "granted",
                 library |-> [k \in 1 .. NumTracks |-> k - 1],
                 failing |-> {}, titled |-> {}]
    /\ loader = [pc |-> "done", after |-> NoCursor, all |-> <<>>,
                 requests |-> <<>>, result |-> <<>>,
                 musicFiles |-> [k \in 1 .. NumTracks |-> k - 1],
                 filteredMusicFiles |-> [k \in 1 .. NumTracks |-> k - 1],
                 loads |-> 1, denials |-> 0]

Init == SessionIdle /\ LoadedCatalog

\* A handler may be invoked: the screen is mounted, and the run and the
\* suspended invocations are bounded.
MayCall == mounted /\ calls < MaxCalls /\ Len(tasks) < MaxTasks

----------------------------------------------------------------------------
(* Calls: the synchronous part of a handler, up to its first await.        *)

\* playSound(index, fromNext) of the render `env`, up to its first await:
\* stopAsync of the closure's currentSound (which throws at once when that
\* sound is no longer loaded: the catch ends the call), else createAsync.
\* `by` is the sound whose status callback makes the call, NoSound otherwise.
PlaySoundTasks(env, index, fromNext, by, via) ==
    IF env.cs # NoSound
    THEN IF JsLoaded(env.cs)
         THEN Append(tasks, Task("play", "stop", Closure(env), index, fromNext, by, via))
         ELSE tasks
    ELSE Append(tasks, Task("play", "create", Closure(env), index, fromNext, by, via))

\* next() that stays on the last index instead of wrapping.
NextIndexNoWrap(env) == IF env.cti + 1 < env.n THEN env.cti + 1 ELSE env.cti

\* nextIndex of playNext: (currentTrackIndex + 1) % musicFiles.length.
NextIndex(env) == JsRem(env.cti + 1, env.n)

PrevIndex(env) == JsRem(env.cti - 1 + env.n, env.n)

PlayNext(env) ==
    IF env.n = 0
    THEN UNCHANGED <<tasks, shouldPlayNext>>
    ELSE /\ shouldPlayNext' = TRUE
         /\ tasks' = PlaySoundTasks(env, NextIndex(env), TRUE, NoSound, "next")

PlayPrevious(env) ==
    IF env.n = 0
    THEN UNCHANGED <<tasks, shouldPlayNext>>
    ELSE /\ shouldPlayNext' = TRUE
         /\ tasks' = PlaySoundTasks(env, PrevIndex(env), TRUE, NoSound, "previous")

\* A togglePlayPause that resumes whatever the playing flag says.
TogglePlayPauseResumeOnly(env) ==
    /\ UNCHANGED shouldPlayNext
    /\ IF env.cs = NoSound \/ env.cti = NoIndex
       THEN UNCHANGED tasks
       ELSE IF ~JsLoaded(env.cs)
            THEN UNCHANGED tasks
            ELSE tasks' = Append(tasks,
                     Task("toggle", "resume",
                          ToggleClosure(env), env.cti, FALSE, NoSound, "tap"))

TogglePlayPause(env) ==
    /\ UNCHANGED shouldPlayNext
    /\ IF env.cs = NoSound \/ env.cti = NoIndex
       THEN UNCHANGED tasks
       ELSE IF ~JsLoaded(env.cs)
            THEN UNCHANGED tasks
            ELSE tasks' = Append(tasks,
                     Task("toggle", IF env.ip THEN "pause" ELSE "resume",
                          ToggleClosure(env), env.cti, FALSE, NoSound, "tap"))

----------------------------------------------------------------------------
(* Entry points.                                                           *)

\* A row of the track list is tapped: playSound(index).
TapTrack(index) ==
    /\ screen = "player"
    /\ index < Len(loader.filteredMusicFiles)
    /\ MayCall
    /\ calls' = calls + 1
    /\ tasks' = PlaySoundTasks(Env, index, FALSE, NoSound, "tap")
    /\ UNCHANGED <<session, notificationIdRef, sounds, visible, playlistOnly>>

\* The transport controls are rendered while a track is loaded.
PressNext ==
    /\ screen = "player"
    /\ MayCall
    /\ calls' = calls + 1
    /\ currentTrackIndex # NoIndex
    /\ PlayNext(Env)
    /\ UNCHANGED <<currentSound, isPlaying, currentTrackIndex,
                   notificationIdRef, sounds, visible, playlistOnly>>

PressPrevious ==
    /\ screen = "player"
    /\ MayCall
    /\ calls' = calls + 1
    /\ currentTrackIndex # NoIndex
    /\ PlayPrevious(Env)
    /\ UNCHANGED <<currentSound, isPlaying, currentTrackIndex,
                   notificationIdRef, sounds, visible, playlistOnly>>

PressPlayPause ==
    /\ screen = "player"
    /\ MayCall
    /\ calls' = calls + 1
    /\ currentTrackIndex # NoIndex
    /\ TogglePlayPause(Env)
    /\ UNCHANGED <<currentSound, isPlaying, currentTrackIndex,
                   notificationIdRef, sounds, visible, playlistOnly>>

\* An action button of a visible notification is pressed.
HandleNotificationResponse(action) ==
    /\ screen = "player"
    /\ MayCall
    /\ calls' = calls + 1
    /\ visible # {}
    /\ LET env == FirstRender IN
       CASE action = "play" ->
              IF ~env.ip THEN TogglePlayPause(env)
                         ELSE UNCHANGED <<tasks, shouldPlayNext>>
         [] action = "pause" ->
              IF env.ip THEN TogglePlayPause(env)
                        ELSE UNCHANGED <<tasks, shouldPlayNext>>
         [] action = "next" -> PlayNext(env)
         [] action = "previous" -> PlayPrevious(env)
    /\ UNCHANGED <<currentSound, isPlaying, currentTrackIndex,
                   notificationIdRef, sounds, visible, playlistOnly>>

----------------------------------------------------------------------------
(* Resumptions: the awaited call takes effect and the handler runs on to   *)
(* its next await.                                                         *)

\* updateNotification / dismissNotification up to their first await.
BeginUpdate(i) ==
    IF notificationIdRef # NoNotif
    THEN [tasks EXCEPT ![i].pc = "dismiss", ![i].nid = notificationIdRef]
    ELSE SetPc(i, "schedule")

UsedNotifs ==
    {v.id : v \in visible} \cup {notificationIdRef}
        \cup {tasks[j].nid : j \in 1 .. Len(tasks)}

FreshNotif == CHOOSE k \in 1 .. (MaxNotifs + MaxTasks + 1) :
                 /\ k \notin UsedNotifs
                 /\ \A m \in 1 .. (k - 1) : m \in UsedNotifs

\* await currentSound.stopAsync() returns; unloadAsync is called.
StopDone(i) ==
    /\ tasks[i].pc = "stop"
    /\ LET h == tasks[i].env.cs IN
       IF JsLoaded(h)
       THEN /\ sounds' = [sounds EXCEPT ![h].st = "unloading"]
            /\ tasks' = SetPc(i, "unload")
       ELSE /\ tasks' = RemoveAt(tasks, i)
            /\ UNCHANGED sounds
    /\ UNCHANGED <<session, notificationIdRef, visible, calls, playlistOnly>>

\* await currentSound.unloadAsync() returns; setCurrentSound(null);
\* setAudioModeAsync and createAsync are called.
UnloadDone(i) ==
    /\ tasks[i].pc = "unload"
    /\ sounds' = [sounds EXCEPT ![tasks[i].env.cs] = Unloaded]
    /\ currentSound' = NoSound
    /\ tasks' = SetPc(i, "create")
    /\ UNCHANGED <<isPlaying, currentTrackIndex, shouldPlayNext,
                   notificationIdRef, visible, calls, playlistOnly>>

\* How a sound created with shouldPlay: true is found when createAsync has
\* resolved and the handler goes on to setOnPlaybackStatusUpdate: playing, or
\* played to its end already, its didJustFinish update delivered to no
\* callback.
AfterCreate == {"playing", "ended"}

\* createAsync resolves: the state setters, the status callback, and
\* updateNotification up to its first await.
CreateDone(i) ==
    /\ tasks[i].pc = "create"
    /\ LET t == tasks[i]
           h == Len(sounds) + 1 IN
       /\ \E st \in AfterCreate :
             sounds' = Append(sounds, [st |-> st, idx |-> t.index,
                                      fromNext |-> t.fromNext, env |-> t.env,
                                      queue |-> <<>>])
       /\ currentSound' = h
       /\ isPlaying' = TRUE
       /\ currentTrackIndex' = t.index
       /\ shouldPlayNext' = t.fromNext
       /\ tasks' = BeginUpdate(i)
    /\ UNCHANGED <<notificationIdRef, visible, calls, playlistOnly>>

\* createAsync rejects: the catch logs and the call ends.
CreateFail(i) ==
    /\ tasks[i].pc = "create"
    /\ tasks' = RemoveAt(tasks, i)
    /\ UNCHANGED <<session, notificationIdRef, sounds, visible, calls, playlistOnly>>

\* dismissNotificationAsync returns inside updateNotification.
DismissDone(i) ==
    /\ tasks[i].pc = "dismiss"
    /\ visible' = {v \in visible : v.id # tasks[i].nid}
    /\ notificationIdRef' = NoNotif
    /\ tasks' = SetPc(i, "schedule")
    /\ UNCHANGED <<session, sounds, calls, playlistOnly>>

\* scheduleNotificationAsync returns: the handler ends.
ScheduleDone(i) ==
    /\ tasks[i].pc = "schedule"
    /\ Cardinality(visible) < MaxNotifs
    /\ LET t == tasks[i] IN
       /\ visible' = visible \cup {[id |-> FreshNotif, track |-> t.index,
                                    playing |-> t.env.ip]}
       /\ notificationIdRef' = FreshNotif
    /\ tasks' = RemoveAt(tasks, i)
    /\ UNCHANGED <<session, sounds, calls, playlistOnly>>

\* pauseAsync returns in togglePlayPause.
PauseDone(i) ==
    /\ tasks[i].pc = "pause"
    /\ LET h == tasks[i].env.cs IN
       IF JsLoaded(h)
       THEN /\ sounds' = [sounds EXCEPT ![h].st = "paused"]
            /\ isPlaying' = FALSE
            /\ tasks' = BeginUpdate(i)
       ELSE /\ tasks' = RemoveAt(tasks, i)
            /\ UNCHANGED <<sounds, isPlaying>>
    /\ UNCHANGED <<currentSound, currentTrackIndex, shouldPlayNext,
                   notificationIdRef, visible, calls, playlistOnly>>

\* playAsync returns in togglePlayPause.
ResumeDone(i) ==
    /\ tasks[i].pc = "resume"
    /\ LET h == tasks[i].env.cs IN
       IF JsLoaded(h)
       THEN /\ sounds' = [sounds EXCEPT ![h].st = "playing"]
            /\ isPlaying' = TRUE
            /\ tasks' = BeginUpdate(i)
       ELSE /\ tasks' = RemoveAt(tasks, i)
            /\ UNCHANGED <<sounds, isPlaying>>
    /\ UNCHANGED <<currentSound, currentTrackIndex, shouldPlayNext,
                   notificationIdRef, visible, calls, playlistOnly>>

\* A togglePlayPause that takes the call for done when it has failed.
ToggleFailFlips(i) ==
    /\ tasks[i].pc \in {"pause", "resume"}
    /\ isPlaying' = ~tasks[i].env.ip
    /\ tasks' = RemoveAt(tasks, i)
    /\ UNCHANGED <<currentSound, currentTrackIndex, shouldPlayNext,
                   notificationIdRef, sounds, visible, calls, playlistOnly>>

\* pauseAsync / playAsync rejects in togglePlayPause: the catch logs, no
\* setter runs and the notification is not refreshed.
ToggleFail(i) ==
    /\ tasks[i].pc \in {"pause", "resume"}
    /\ tasks' = RemoveAt(tasks, i)
    /\ UNCHANGED <<session, notificationIdRef, sounds, visible, calls, playlistOnly>>

----------------------------------------------------------------------------
(* The status callback of a sound, for the update with didJustFinish.      *)

Finish(h) ==
    /\ screen = "player"
    /\ h \in 1 .. Len(sounds)
    /\ sounds[h].st = "playing"
    /\ MayCall
    /\ calls' = calls + 1
    /\ LET s == sounds[h]
           env == [cs |-> s.env.cs, ip |-> s.env.ip, spn |-> s.env.spn,
                   cti |-> s.idx, n |-> NumTracks] IN
       IF s.env.spn
       THEN \* await playSound(nextIndex, true), in the closure of the callback
            /\ sounds' = [sounds EXCEPT ![h].st = "finished"]
            /\ tasks' = PlaySoundTasks(env, NextIndex(env), TRUE, h, "completion")
            /\ UNCHANGED session
       ELSE \* the setters, then await sound.unloadAsync()
            /\ currentSound' = NoSound
            /\ isPlaying' = FALSE
            /\ currentTrackIndex' = NoIndex
            /\ sounds' = [sounds EXCEPT ![h].st = "unloading"]
            /\ tasks' = Append(tasks, Task("completion", "cbUnload", NoClosure,
                                           s.idx, s.fromNext, h, "completion"))
            /\ UNCHANGED shouldPlayNext
    /\ UNCHANGED <<notificationIdRef, visible, playlistOnly>>

\* await sound.unloadAsync() returns in the callback; dismissNotification.
CbUnloadDone(i) ==
    /\ tasks[i].pc = "cbUnload"
    /\ sounds' = [sounds EXCEPT ![tasks[i].sound] = Unloaded]
    /\ tasks' = IF notificationIdRef # NoNotif
                THEN [tasks EXCEPT ![i].pc = "cbDismiss",
                                   ![i].nid = notificationIdRef]
                ELSE RemoveAt(tasks, i)
    /\ UNCHANGED <<session, notificationIdRef, visible, calls, playlistOnly>>

\* dismissNotificationAsync returns in dismissNotification.
CbDismissDone(i) ==
    /\ tasks[i].pc = "cbDismiss"
    /\ visible' = {v \in visible : v.id # tasks[i].nid}
    /\ notificationIdRef' = NoNotif
    /\ tasks' = RemoveAt(tasks, i)
    /\ UNCHANGED <<session, sounds, calls, playlistOnly>>

----------------------------------------------------------------------------
(* The playlist screen (PlaylistScreen.tsx, the multi-playlist component). *)

\* The state a handler of the playlist screen's current render closes over.
PlaylistEnv == [cs |-> currentSound, ip |-> isPlaying, ci |-> currentIndex]

PlaylistClosure(env) == [cs |-> env.cs, ip |-> env.ip, spn |-> FALSE, ci |-> env.ci]

\* snds after unloadAsync has been CALLED on h: _loaded is cleared at once.
UnloadCalled(snds, h) ==
    IF h # NoSound /\ snds[h].st \in {"playing", "paused", "finished", "ended"}
    THEN [snds EXCEPT ![h].st = "unloading"]
    ELSE snds

\* playSound(track, index, playlist) of the render `env`, up to its first
\* await: unloadAsync of the closure's currentSound, else createAsync.
PlaylistPlaySound(snds, env, index, queue, by, via) ==
    /\ sounds' = UnloadCalled(snds, env.cs)
    /\ tasks' = Append(tasks,
          TaskOf("play", IF env.cs # NoSound THEN "plUnload" ELSE "plCreate",
                 PlaylistClosure(env), index, FALSE, by, via, queue))

\* playNext(playlist): nothing at or past the last index.
PlaylistPlayNext(snds, env, queue, by, via) ==
    IF env.ci < Len(queue) - 1
    THEN PlaylistPlaySound(snds, env, env.ci + 1, queue, by, via)
    ELSE sounds' = snds /\ UNCHANGED tasks

\* playPrevious(playlist): nothing at index 0 or with no position.
PlaylistPlayPrevious(snds, env, queue, by, via) ==
    IF env.ci > 0
    THEN PlaylistPlaySound(snds, env, env.ci - 1, queue, by, via)
    ELSE sounds' = snds /\ UNCHANGED tasks

\* A stopSound() that does nothing.
NoStopTasks(env, by, via) == <<>>

\* stopSound() of the render `env`, up to its first await: nothing without a
\* sound, and stopAsync throws when the sound is no longer loaded.
PlaylistStopTasks(env, by, via) ==
    IF env.cs # NoSound /\ JsLoaded(env.cs)
    THEN <<TaskOf("stop", "plStop", PlaylistClosure(env), NoIndex, FALSE, by,
                  via, <<>>)>>
    ELSE <<>>

\* savePlaylists(updatedPlaylists) up to its await of AsyncStorage.setItem.
SaveTask(updated) ==
    [TaskOf("save", "plSave", NoClosure, NoIndex, FALSE, NoSound, "store", <<>>)
        EXCEPT !.updated = updated]

playlistSession == <<currentSound, isPlaying, currentTrack, currentIndex, listener>>

\* The playlist the now-playing controls and the notification listener hand
\* to playNext and playPrevious: selectedPlaylist?.tracks || [], and the
\* state `playlist` in the single-playlist component.
CurrentQueue == IF screen = "single" THEN single.playlist ELSE selectedPlaylist.tracks

\* The notification listener is registered again after every render that
\* has changed isPlaying (useEffect with [isPlaying]), and is the
\* handleNotificationResponse of that render.
Registered(sound, playing, track, index) ==
    IF playing # isPlaying
    THEN [cs |-> sound, ip |-> playing, ci |-> index, ct |-> track,
          queue |-> CurrentQueue]
    ELSE listener

\* togglePlayPause() of the render `env` up to its first await; pauseAsync
\* and playAsync throw at once when the sound is no longer loaded.
PlaylistTogglePlayPause(env, track) ==
    IF env.cs # NoSound /\ JsLoaded(env.cs)
    THEN Append(tasks,
            TaskOf("toggle", IF env.ip THEN "plPause" ELSE "plResume",
                   PlaylistClosure(env), track, FALSE, NoSound, "tap", <<>>))
    ELSE tasks

\* A playlist card is opened: setSelectedPlaylist(item).
SelectPlaylist(p) ==
    /\ screen = "playlist"
    /\ mounted
    /\ p \in 1 .. Len(playlists)
    /\ selectedPlaylist' = playlists[p]
    /\ UNCHANGED <<playlistSession, playerOnly, store, notificationIdRef, sounds,
                   visible, tasks, calls, playlists>>

\* A row of the selected playlist is tapped.
PlaylistTapTrack(index) ==
    /\ screen = "playlist"
    /\ MayCall
    /\ calls' = calls + 1
    /\ selectedPlaylist # NoPlaylist
    /\ index \in 0 .. (Len(selectedPlaylist.tracks) - 1)
    /\ PlaylistPlaySound(sounds, PlaylistEnv, index, selectedPlaylist.tracks, NoSound, "tap")
    /\ UNCHANGED <<playlistSession, playerOnly, store, notificationIdRef, visible,
                   playlists, selectedPlaylist>>

\* The now-playing controls are rendered while currentTrack is set.
PlaylistPressNext ==
    /\ screen # "player"
    /\ MayCall
    /\ calls' = calls + 1
    /\ currentTrack # NoTrack
    /\ PlaylistPlayNext(sounds, PlaylistEnv, CurrentQueue, NoSound, "next")
    /\ UNCHANGED <<playlistSession, playerOnly, store, notificationIdRef, visible,
                   playlists, selectedPlaylist>>

PlaylistPressPrevious ==
    /\ screen # "player"
    /\ MayCall
    /\ calls' = calls + 1
    /\ currentTrack # NoTrack
    /\ PlaylistPlayPrevious(sounds, PlaylistEnv, CurrentQueue, NoSound, "previous")
    /\ UNCHANGED <<playlistSession, playerOnly, store, notificationIdRef, visible,
                   playlists, selectedPlaylist>>

\* togglePlayPause() up to its first await.
PlaylistPressPlayPause ==
    /\ screen # "player"
    /\ MayCall
    /\ calls' = calls + 1
    /\ currentTrack # NoTrack
    /\ tasks' = PlaylistTogglePlayPause(PlaylistEnv, currentTrack)
    /\ UNCHANGED <<playlistSession, playerOnly, store, notificationIdRef, sounds,
                   visible, playlists, selectedPlaylist>>

\* An action button of a visible notification is pressed: the registered
\* handleNotificationResponse runs in the render it was defined in.
PlaylistHandleNotificationResponse(action) ==
    /\ screen # "player"
    /\ MayCall
    /\ calls' = calls + 1
    /\ visible # {}
    /\ LET env == [cs |-> listener.cs, ip |-> listener.ip, ci |-> listener.ci] IN
       CASE action = "play-pause" ->
              /\ tasks' = PlaylistTogglePlayPause(env, listener.ct)
              /\ UNCHANGED sounds
         [] action = "next" ->
              PlaylistPlayNext(sounds, env, listener.queue, NoSound, "next")
         [] action = "previous" ->
              PlaylistPlayPrevious(sounds, env, listener.queue, NoSound, "previous")
    /\ UNCHANGED <<playlistSession, playerOnly, store, notificationIdRef, visible,
                   playlists, selectedPlaylist>>

\* The remove button of a row of the selected playlist:
\* removeFromPlaylist(item.id, selectedPlaylist.id).
\* A removal that drops the rows above the removed one with it.
WithoutUpTo(seq, trackId) ==
    IF \E k \in DOMAIN seq : seq[k] = trackId
    THEN SubSeq(seq, (CHOOSE k \in DOMAIN seq : seq[k] = trackId) + 1, Len(seq))
    ELSE seq

Without(seq, trackId) == SelectSeq(seq, LAMBDA t : t # trackId)

RemoveFromPlaylist(trackId) ==
    /\ screen = "playlist"
    /\ mounted
    /\ calls < MaxCalls
    /\ calls' = calls + 1
    /\ selectedPlaylist # NoPlaylist
    /\ \E k \in DOMAIN selectedPlaylist.tracks : selectedPlaylist.tracks[k] = trackId
    /\ LET updated == [p \in DOMAIN playlists |->
                         IF playlists[p].id = selectedPlaylist.id
                         THEN [playlists[p] EXCEPT !.tracks = Without(@, trackId)]
                         ELSE playlists[p]]
           stop == IF currentTrack = trackId
                   THEN PlaylistStopTasks(PlaylistEnv, NoSound, "remove")
                   ELSE <<>> IN
       /\ Len(tasks) + 1 + Len(stop) <= MaxTasks
       /\ tasks' = (tasks \o <<SaveTask(updated)>>) \o stop
    /\ UNCHANGED <<playlistSession, playerOnly, store, notificationIdRef, sounds,
                   visible, playlists, selectedPlaylist>>

\* AsyncStorage.setItem resolves: setPlaylists(updatedPlaylists).
PlaylistSaveDone(i) ==
    /\ tasks[i].pc = "plSave"
    /\ stored' = tasks[i].updated
    /\ playlists' = tasks[i].updated
    /\ tasks' = RemoveAt(tasks, i)
    /\ UNCHANGED <<playlistSession, playerOnly, notificationIdRef, sounds,
                   visible, calls, selectedPlaylist, clock>>

\* AsyncStorage.setItem rejects: the catch logs and the state is kept.
PlaylistSaveFail(i) ==
    /\ tasks[i].pc = "plSave"
    /\ tasks' = RemoveAt(tasks, i)
    /\ UNCHANGED <<playlistSession, playerOnly, store, notificationIdRef, sounds,
                   visible, calls, playlists, selectedPlaylist>>

\* The title typed into the create and the edit dialogs, already trimmed.
NewTitle == "n"

\* What may be typed into the title field of the create and edit dialogs.
Typed == {NewTitle, " n ", "  ", ""}

\* String.prototype.trim(), over the texts of the model.
Trim(text) ==
    CASE text = " n " -> "n"
      [] text = "  " -> ""
      [] OTHER -> text

\* createPlaylist() with `text` in the title field: nothing when the
\* trimmed text is empty; the id is the reading of Date.now(), which never
\* goes back and may be the same for two readings.
CreatePlaylist(text) ==
    /\ screen = "playlist"
    /\ MayCall
    /\ calls' = calls + 1
    /\ IF Trim(text) # ""
       THEN \E now \in clock .. MaxClock :
               /\ clock' = now
               /\ tasks' = Append(tasks,
                     SaveTask(Append(playlists,
                         [id |-> now, title |-> Trim(text), tracks |-> <<>>])))
       ELSE UNCHANGED <<clock, tasks>>
    /\ UNCHANGED <<playlistSession, playerOnly, notificationIdRef, sounds,
                   visible, playlists, selectedPlaylist, stored>>

\* The delete button of the card of playlists[p]: deletePlaylist(item.id).
DeletePlaylist(p) ==
    /\ screen = "playlist"
    /\ MayCall
    /\ calls' = calls + 1
    /\ p \in 1 .. Len(playlists)
    /\ tasks' = Append(tasks,
          SaveTask(SelectSeq(playlists, LAMBDA q : q.id # playlists[p].id)))
    /\ selectedPlaylist' = IF selectedPlaylist.id = playlists[p].id
                           THEN NoPlaylist
                           ELSE selectedPlaylist
    /\ UNCHANGED <<playlistSession, playerOnly, store, notificationIdRef,
                   sounds, visible, playlists>>

\* The tracks of a playlist after addToPlaylist: appended unless some track
\* of it has the id already.
AddTrackAlways(seq, trackId) == Append(seq, trackId)

\* An addToPlaylist that compares the new id with the last track only.
AddTrackUnlessLast(seq, trackId) ==
    IF seq # <<>> /\ seq[Len(seq)] = trackId THEN seq ELSE Append(seq, trackId)

AddTrack(seq, trackId) ==
    IF \E k \in DOMAIN seq : seq[k] = trackId THEN seq ELSE Append(seq, trackId)

\* "Add to <title>" in the dialog of a catalog track:
\* addToPlaylist(selectedTrack, playlist.id).
AddToPlaylist(trackId, p) ==
    /\ screen = "playlist"
    /\ MayCall
    /\ calls' = calls + 1
    /\ p \in 1 .. Len(playlists)
    /\ tasks' = Append(tasks,
          [SaveTask([q \in DOMAIN playlists |->
                      IF playlists[q].id = playlists[p].id
                      THEN [playlists[q] EXCEPT !.tracks = AddTrack(@, trackId)]
                      ELSE playlists[q]])
              EXCEPT !.via = "add", !.index = trackId])
    /\ UNCHANGED <<playlistSession, playerOnly, store, notificationIdRef,
                   sounds, visible, playlists, selectedPlaylist>>

\* The save button of the edit dialog, after `text` has been typed into
\* selectedPlaylist: editPlaylistTitle(selectedPlaylist.id, selectedPlaylist.title).
EditPlaylistTitle(text) ==
    /\ screen = "playlist"
    /\ MayCall
    /\ calls' = calls + 1
    /\ selectedPlaylist # NoPlaylist
    /\ selectedPlaylist' = [selectedPlaylist EXCEPT !.title = text]
    /\ tasks' = Append(tasks,
          [SaveTask([q \in DOMAIN playlists |->
                       IF playlists[q].id = selectedPlaylist.id
                       THEN [playlists[q] EXCEPT !.title = Trim(text)]
                       ELSE playlists[q]])
              EXCEPT !.via = "edit"])
    /\ UNCHANGED <<playlistSession, playerOnly, store, notificationIdRef,
                   sounds, visible, playlists>>

\* updateNotification(track) up to its first await.
PlaylistBeginUpdate(i) ==
    IF notificationIdRef # NoNotif
    THEN [tasks EXCEPT ![i].pc = "plDismiss", ![i].nid = notificationIdRef]
    ELSE SetPc(i, "plSchedule")

\* The track a playSound was called with: playlist[index], or the catalog
\* item of the single-playlist component's song list.
TrackOf(t) == IF t.track # NoTrack THEN t.track ELSE t.queue[t.index + 1]

\* await currentSound.unloadAsync() returns; setAudioModeAsync, createAsync.
PlaylistUnloadDone(i) ==
    /\ tasks[i].pc = "plUnload"
    /\ LET h == tasks[i].env.cs IN
       sounds' = IF sounds[h].st = "unloading"
                 THEN [sounds EXCEPT ![h] = Unloaded]
                 ELSE sounds
    /\ tasks' = SetPc(i, "plCreate")
    /\ UNCHANGED <<playlistSession, playerOnly, store, notificationIdRef, visible,
                   calls, playlists, selectedPlaylist>>

\* createAsync resolves: the setters, the status callback, updateNotification.
\* With playlist[index] undefined, reading track.uri throws instead.
PlaylistCreateDone(i) ==
    /\ tasks[i].pc = "plCreate"
    /\ tasks[i].track # NoTrack \/ tasks[i].index + 1 \in DOMAIN tasks[i].queue
    /\ LET t == tasks[i]
           h == Len(sounds) + 1 IN
       /\ \E st \in AfterCreate :
             sounds' = Append(sounds, [st |-> st, idx |-> t.index,
                                      fromNext |-> FALSE, env |-> t.env,
                                      queue |-> t.queue])
       /\ currentSound' = h
       /\ currentTrack' = TrackOf(t)
       /\ currentIndex' = t.index
       /\ isPlaying' = TRUE
       /\ listener' = Registered(h, TRUE, TrackOf(t), t.index)
       /\ tasks' = [PlaylistBeginUpdate(i) EXCEPT ![i].sound = h]
    /\ UNCHANGED <<playerOnly, store, notificationIdRef, visible, calls, playlists,
                   selectedPlaylist>>

PlaylistCreateFail(i) ==
    /\ tasks[i].pc = "plCreate"
    /\ tasks' = RemoveAt(tasks, i)
    /\ UNCHANGED <<playlistSession, playerOnly, store, notificationIdRef, sounds,
                   visible, calls, playlists, selectedPlaylist>>

\* dismissNotificationAsync returns in updateNotification: the ref is kept.
PlaylistDismissDone(i) ==
    /\ tasks[i].pc = "plDismiss"
    /\ visible' = {v \in visible : v.id # tasks[i].nid}
    /\ tasks' = SetPc(i, "plSchedule")
    /\ UNCHANGED <<playlistSession, playerOnly, store, notificationIdRef, sounds,
                   calls, playlists, selectedPlaylist>>

\* scheduleNotificationAsync returns; playSound goes on to sound.playAsync(),
\* togglePlayPause ends.
PlaylistScheduleDone(i) ==
    /\ tasks[i].pc = "plSchedule"
    /\ Cardinality(visible) < MaxNotifs
    /\ LET t == tasks[i] IN
       /\ visible' = visible \cup
             {[id |-> FreshNotif,
               track |-> IF t.op = "play" THEN TrackOf(t) ELSE t.index,
               playing |-> t.env.ip]}
       /\ notificationIdRef' = FreshNotif
       /\ tasks' = IF t.op = "play" /\ JsLoaded(t.sound)
                   THEN SetPc(i, "plPlay")
                   ELSE RemoveAt(tasks, i)
    /\ UNCHANGED <<playlistSession, playerOnly, store, sounds, calls, playlists,
                   selectedPlaylist>>

\* await sound.playAsync() returns: playSound ends.
PlaylistPlayDone(i) ==
    /\ tasks[i].pc = "plPlay"
    /\ LET h == tasks[i].sound IN
       sounds' = IF JsLoaded(h) THEN [sounds EXCEPT ![h].st = "playing"] ELSE sounds
    /\ tasks' = RemoveAt(tasks, i)
    /\ UNCHANGED <<playlistSession, playerOnly, store, notificationIdRef, visible,
                   calls, playlists, selectedPlaylist>>

\* pauseAsync / playAsync returns in togglePlayPause: setIsPlaying(!isPlaying).
PlaylistToggleDone(i) ==
    /\ tasks[i].pc \in {"plPause", "plResume"}
    /\ LET t == tasks[i]
           h == t.env.cs IN
       IF JsLoaded(h)
       THEN /\ sounds' = [sounds EXCEPT
                  ![h].st = IF t.pc = "plPause" THEN "paused" ELSE "playing"]
            /\ isPlaying' = ~t.env.ip
            /\ listener' = Registered(currentSound, ~t.env.ip, currentTrack,
                                      currentIndex)
            /\ tasks' = PlaylistBeginUpdate(i)
       ELSE /\ tasks' = RemoveAt(tasks, i)
            /\ UNCHANGED <<sounds, isPlaying, listener>>
    /\ UNCHANGED <<currentSound, currentTrack, currentIndex, playerOnly, store,
                   notificationIdRef, visible, calls, playlists,
                   selectedPlaylist>>

\* pauseAsync / playAsync rejects in togglePlayPause: nothing catches it and
\* the rest of togglePlayPause is skipped.
PlaylistToggleFail(i) ==
    /\ tasks[i].pc \in {"plPause", "plResume"}
    /\ tasks' = RemoveAt(tasks, i)
    /\ UNCHANGED <<playlistSession, playerOnly, store, notificationIdRef, sounds,
                   visible, calls, playlists, selectedPlaylist>>

\* await currentSound.stopAsync() returns in stopSound; unloadAsync is called.
PlaylistStopDone(i) ==
    /\ tasks[i].pc = "plStop"
    /\ LET h == tasks[i].env.cs IN
       IF JsLoaded(h)
       THEN /\ sounds' = [sounds EXCEPT ![h].st = "unloading"]
            /\ tasks' = SetPc(i, "plStopUnload")
       ELSE /\ tasks' = RemoveAt(tasks, i)
            /\ UNCHANGED sounds
    /\ UNCHANGED <<playlistSession, playerOnly, store, notificationIdRef, visible,
                   calls, playlists, selectedPlaylist>>

\* await currentSound.stopAsync() rejects in stopSound: nothing catches it
\* and the rest of stopSound is skipped.
PlaylistStopFail(i) ==
    /\ tasks[i].pc = "plStop"
    /\ tasks' = RemoveAt(tasks, i)
    /\ UNCHANGED <<playlistSession, playerOnly, store, notificationIdRef,
                   sounds, visible, calls, playlists, selectedPlaylist>>

\* await currentSound.unloadAsync() returns in stopSound: the setters, then
\* the dismissal of the notification.
PlaylistStopUnloadDone(i) ==
    /\ tasks[i].pc = "plStopUnload"
    /\ sounds' = [sounds EXCEPT ![tasks[i].env.cs] = Unloaded]
    /\ currentSound' = NoSound
    /\ isPlaying' = FALSE
    /\ currentTrack' = NoTrack
    /\ currentIndex' = NoIndex
    /\ listener' = Registered(NoSound, FALSE, NoTrack, NoIndex)
    /\ tasks' = IF notificationIdRef # NoNotif
                THEN [tasks EXCEPT ![i].pc = "plStopDismiss",
                                   ![i].nid = notificationIdRef]
                ELSE RemoveAt(tasks, i)
    /\ UNCHANGED <<playerOnly, store, notificationIdRef, visible, calls, playlists,
                   selectedPlaylist>>

PlaylistStopDismissDone(i) ==
    /\ tasks[i].pc = "plStopDismiss"
    /\ visible' = {v \in visible : v.id # tasks[i].nid}
    /\ notificationIdRef' = NoNotif
    /\ tasks' = RemoveAt(tasks, i)
    /\ UNCHANGED <<playlistSession, playerOnly, store, sounds, calls, playlists,
                   selectedPlaylist>>

\* The status callback of a playlist-screen sound, for didJustFinish.
PlaylistFinish(h) ==
    /\ screen # "player"
    /\ h \in 1 .. Len(sounds)
    /\ sounds[h].st = "playing"
    /\ MayCall
    /\ calls' = calls + 1
    /\ LET s == sounds[h]
           finished == [sounds EXCEPT ![h].st = "finished"] IN
       IF s.idx < Len(s.queue) - 1
       THEN PlaylistPlayNext(finished, s.env, s.queue, h, "completion")
       ELSE /\ sounds' = finished
            /\ tasks' = tasks \o PlaylistStopTasks(s.env, h, "completion")
    /\ UNCHANGED <<playlistSession, playerOnly, store, notificationIdRef, visible,
                   playlists, selectedPlaylist>>

----------------------------------------------------------------------------
(* The screen is left: the cleanup of the mount effect.                    *)

\* The cleanup is the one the first render returned (useEffect with no
\* dependencies): it unloads the currentSound of that render and dismisses
\* the notification the ref names now.
Unmount ==
    /\ MayCall
    /\ calls' = calls + 1
    /\ mounted' = FALSE
    /\ sounds' = UnloadCalled(sounds, FirstRender.cs)
    /\ tasks' = IF notificationIdRef # NoNotif
                THEN Append(tasks,
                        [TaskOf("cleanup", "umDismiss", NoClosure, NoIndex, FALSE,
                                NoSound, "unmount", <<>>)
                            EXCEPT !.nid = notificationIdRef])
                ELSE tasks
    /\ UNCHANGED <<session, notificationIdRef, visible, screen, currentTrack,
                   currentIndex, playlists, selectedPlaylist, store, listener,
                   catalog, single>>

\* dismissNotificationAsync returns in the cleanup.
UnmountDismissDone(i) ==
    /\ tasks[i].pc = "umDismiss"
    /\ visible' = {v \in visible : v.id # tasks[i].nid}
    /\ tasks' = RemoveAt(tasks, i)
    /\ UNCHANGED <<session, notificationIdRef, sounds, calls, playlistOnly>>

----------------------------------------------------------------------------

Next ==
    \/ \E index \in Tracks : TapTrack(index)
    \/ PressNext
    \/ PressPrevious
    \/ PressPlayPause
    \/ \E action \in {"play", "pause", "next", "previous"} :
          HandleNotificationResponse(action)
    \/ \E i \in 1 .. Len(tasks) : StopDone(i)
    \/ \E i \in 1 .. Len(tasks) : UnloadDone(i)
    \/ \E i \in 1 .. Len(tasks) : CreateDone(i)
    \/ \E i \in 1 .. Len(tasks) : CreateFail(i)
    \/ \E i \in 1 .. Len(tasks) : DismissDone(i)
    \/ \E i \in 1 .. Len(tasks) : ScheduleDone(i)
    \/ \E i \in 1 .. Len(tasks) : PauseDone(i)
    \/ \E i \in 1 .. Len(tasks) : ResumeDone(i)
    \/ \E i \in 1 .. Len(tasks) : ToggleFail(i)
    \/ \E i \in 1 .. Len(tasks) : CbUnloadDone(i)
    \/ \E i \in 1 .. Len(tasks) : CbDismissDone(i)
    \/ \E h \in 1 .. Len(sounds) : Finish(h)
    \/ \E p \in 1 .. Len(playlists) : SelectPlaylist(p)
    \/ \E index \in Tracks : PlaylistTapTrack(index)
    \/ PlaylistPressNext
    \/ PlaylistPressPrevious
    \/ PlaylistPressPlayPause
    \/ \E action \in {"play-pause", "next", "previous"} :
          PlaylistHandleNotificationResponse(action)
    \/ \E trackId \in Tracks : RemoveFromPlaylist(trackId)
    \/ CreatePlaylist(NewTitle)
    \/ \E p \in 1 .. Len(playlists) : DeletePlaylist(p)
    \/ \E trackId \in Tracks, p \in 1 .. Len(playlists) : AddToPlaylist(trackId, p)
    \/ EditPlaylistTitle(NewTitle)
    \/ \E i \in 1 .. Len(tasks) : PlaylistSaveDone(i)
    \/ \E i \in 1 .. Len(tasks) : PlaylistSaveFail(i)
    \/ \E i \in 1 .. Len(tasks) : PlaylistUnloadDone(i)
    \/ \E i \in 1 .. Len(tasks) : PlaylistCreateDone(i)
    \/ \E i \in 1 .. Len(tasks) : PlaylistCreateFail(i)
    \/ \E i \in 1 .. Len(tasks) : PlaylistDismissDone(i)
    \/ \E i \in 1 .. Len(tasks) : PlaylistScheduleDone(i)
    \/ \E i \in 1 .. Len(tasks) : PlaylistPlayDone(i)
    \/ \E i \in 1 .. Len(tasks) : PlaylistToggleDone(i)
    \/ \E i \in 1 .. Len(tasks) : PlaylistToggleFail(i)
    \/ \E i \in 1 .. Len(tasks) : PlaylistStopDone(i)
    \/ \E i \in 1 .. Len(tasks) : PlaylistStopFail(i)
    \/ \E i \in 1 .. Len(tasks) : PlaylistStopUnloadDone(i)
    \/ \E i \in 1 .. Len(tasks) : PlaylistStopDismissDone(i)
    \/ \E h \in 1 .. Len(sounds) : PlaylistFinish(h)
    \/ Unmount
    \/ \E i \in 1 .. Len(tasks) : UnmountDismissDone(i)

Spec == Init /\ [][Next]_vars

----------------------------------------------------------------------------
(* Properties.                                                             *)

\* The session's position: currentTrackIndex in the music player screen,
\* currentIndex in the playlist screen.
Position == IF screen = "player" THEN currentTrackIndex ELSE currentIndex

\* The step is the status callback of h running for didJustFinish: h stops
\* playing by itself, or is unloaded by the callback's own idle branch.
Completes(h) ==
    /\ calls' = calls + 1
    /\ sounds[h].st = "playing"
    /\ \/ sounds'[h].st = "finished"
       \/ /\ sounds'[h].st = "unloading"
          /\ Len(tasks') = Len(tasks) + 1
          /\ tasks'[Len(tasks')].op = "completion"
          /\ tasks'[Len(tasks')].sound = h

\* The step starts a playSound call for index.
StartsPlay(index) ==
    /\ Len(tasks') = Len(tasks) + 1
    /\ tasks'[Len(tasks')].op = "play"
    /\ tasks'[Len(tasks')].index = index

\* The step starts a stopSound call.
StartsStop ==
    /\ Len(tasks') = Len(tasks) + 1
    /\ tasks'[Len(tasks')].op = "stop"

\* The step is the last one of tasks[i].
Ends(i) == tasks' = RemoveAt(tasks, i)

\* tasks[i] is a playSound waiting for createAsync.
Acquiring(i) == tasks[i].op = "play" /\ tasks[i].pc \in {"create", "plCreate"}

\* The step is createAsync resolving for tasks[i].
Acquires(i) ==
    /\ Acquiring(i)
    /\ Len(sounds') = Len(sounds) + 1
    /\ Len(tasks') = Len(tasks)
    /\ ~Acquiring(i)'

\* The operations on the session, as opposed to the saves of the store.
SessionTasks == {i \in 1 .. Len(tasks) : tasks[i].op # "save"}

Idle == currentSound = NoSound /\ Position = NoIndex /\ ~isPlaying

\* The length of the queue h was loaded from.
QueueLen(h) == IF screen = "player" THEN NumTracks ELSE Len(sounds[h].queue)

\* C1: at every instant at most one sound is created and not yet unloaded.
AtMostOneOpenSound == Cardinality(OpenSounds) <= 1

\* C2: the completion of a sound that is no longer the session's active
\* handle starts no call and leaves the session and the notification alone.
StaleCompletionSuppressed ==
    [][\A h \in 1 .. Len(sounds) :
          (Completes(h) /\ currentSound # NoSound /\ currentSound # h)
             => UNCHANGED <<session, currentTrack, currentIndex,
                            notificationIdRef, visible, tasks>>]_vars

\* C3: once every operation has completed, a handle is active exactly when
\* a position is set.
HandleIffPosition ==
    (SessionTasks = {}) => ((currentSound # NoSound) <=> (Position # NoIndex))

\* C4: no operation on the session starts between the first and the last
\* step of another.
MutuallyExclusive == Cardinality(SessionTasks) <= 1

\* C5: a playSound whose acquisition completes while a newer playSound is in
\* flight does not install its sound as the active handle.
SupersededNotInstalled ==
    [][\A i \in 1 .. Len(tasks) :
          (/\ Acquires(i)
           /\ \E j \in (i + 1) .. Len(tasks) : tasks[j].op = "play")
             => currentSound' # Len(sounds')]_vars

\* C6: while a playSound is acquiring, the handle that was active when the
\* call began has been released.
TeardownBeforeAcquire ==
    \A i \in 1 .. Len(tasks) :
        (Acquiring(i) /\ tasks[i].active0 # NoSound)
          => sounds[tasks[i].active0].st = "unloaded"

\* C7: the completion of the active track i < N-1 that was loaded with
\* auto-advance (fromNext in the music player screen, always in the playlist
\* screen) starts playSound(i+1); and when a playSound started by such a
\* completion ends, other than by a failed acquisition, the session plays
\* i+1 and the notification shows i+1 as Playing.
AutoAdvanceOnCompletion ==
    [][/\ \A h \in 1 .. Len(sounds) :
            (/\ Completes(h)
             /\ currentSound = h
             /\ screen = "player" => sounds[h].fromNext
             /\ sounds[h].idx < QueueLen(h) - 1)
              => StartsPlay(sounds[h].idx + 1)
       /\ \A i \in 1 .. Len(tasks) :
            (/\ tasks[i].op = "play" /\ tasks[i].sound # NoSound
             /\ sounds[tasks[i].sound].fromNext /\ tasks[i].index # 0
             /\ tasks[i].pc # "create" /\ Ends(i))
              => /\ currentTrackIndex' = tasks[i].index
                 /\ isPlaying'
                 /\ \E v \in visible' :
                       v.track = tasks[i].index /\ v.playing]_vars

\* C8: in the music player screen the completion of the active track that
\* was loaded by a tap (fromNext = false) starts no playSound and makes the
\* session Idle.
ManualSelectionStops ==
    [][\A h \in 1 .. Len(sounds) :
          (/\ screen = "player"
           /\ Completes(h)
           /\ currentSound = h
           /\ ~sounds[h].fromNext)
             => (Idle' /\ \A k \in Tracks : ~StartsPlay(k))]_vars

\* C9: the completion of the last track, loaded by a tap, wraps to no track
\* and takes the session to Idle (at once in the music player screen, by a
\* stopSound call in the playlist screen); when that work ends the sound is
\* released and no notification is left.
LastTrackCompletionIdles ==
    [][/\ \A h \in 1 .. Len(sounds) :
            (/\ Completes(h)
             /\ currentSound = h
             /\ ~sounds[h].fromNext
             /\ sounds[h].idx = QueueLen(h) - 1)
              => /\ \A k \in Tracks : ~StartsPlay(k)
                 /\ IF screen = "player" THEN Idle' ELSE StartsStop
       /\ \A i \in 1 .. Len(tasks) :
            (/\ tasks[i].op = "completion" /\ ~tasks[i].fromNext
             /\ tasks[i].index = NumTracks - 1 /\ Ends(i))
              => /\ sounds'[tasks[i].sound].st = "unloaded"
                 /\ visible' = {}
                 /\ notificationIdRef' = NoNotif]_vars

\* The neighbours of position p in a queue of length n, with wraparound.
WrapNext(p, n) == IF p = n - 1 THEN 0 ELSE p + 1

WrapPrevious(p, n) == IF p = 0 THEN n - 1 ELSE p - 1

\* The active handle can be torn down: there is none, or it is still loaded.
Playable == currentSound = NoSound \/ JsLoaded(currentSound)

AtMostOneVisible == Cardinality(visible) <= 1

\* The track the session has loaded, as notifications name it: its index in
\* the music player screen, its id in the playlist screen.
LoadedTrack == IF screen = "player" THEN currentTrackIndex ELSE currentTrack

\* The step is the last one of the playSound or togglePlayPause tasks[i],
\* after its refresh of the notification.
CompletesRefreshed(i) ==
    /\ tasks[i].op \in {"play", "toggle"}
    /\ tasks[i].pc \in {"schedule", "plSchedule", "plPlay"}
    /\ Ends(i)

\* C12: when a playSound or a togglePlayPause completes, the notification it
\* has issued names the loaded track and its Playing/Paused label is the
\* session's playing flag.
NotificationReflectsSession ==
    [][\A i \in 1 .. Len(tasks) :
          CompletesRefreshed(i)
             => \E v \in visible' :
                   /\ v.id = notificationIdRef'
                   /\ v.track = LoadedTrack'
                   /\ v.playing = isPlaying']_vars

\* The session holds no sound that is still loaded.
NoLoadedHandle == currentSound = NoSound \/ ~JsLoaded(currentSound)

\* The step is createAsync rejecting for the playSound tasks[i].
AcquireFails(i) == Acquiring(i) /\ Ends(i)

\* C13: a playSound whose acquisition fails, with no other operation in
\* flight and no other sound loaded, leaves the session Idle and starts no
\* other call.
FailedAcquisitionIdles ==
    [][\A i \in 1 .. Len(tasks) :
          (AcquireFails(i) /\ SessionTasks = {i} /\ NoLoadedHandle)
             => (Idle' /\ SessionTasks' = {})]_vars

\* The step is stopAsync rejecting in the stopSound tasks[i], for a sound
\* that is still loaded.
StopCallFails(i) ==
    /\ tasks[i].op = "stop"
    /\ tasks[i].pc = "plStop"
    /\ JsLoaded(tasks[i].env.cs)
    /\ Ends(i)

\* C14: a stopSound whose stopAsync fails still releases the sound and
\* leaves the session Idle with its notification dismissed.
StopReleasesOnFailure ==
    [][\A i \in 1 .. Len(tasks) :
          StopCallFails(i)
             => /\ sounds'[tasks[i].env.cs].st \in {"unloading", "unloaded"}
                /\ Idle'
                /\ notificationIdRef' = NoNotif]_vars

\* The step is the remove button pressed on the row of the track t that the
\* session has loaded.
RemovesLoaded(t) ==
    /\ RemoveFromPlaylist(t)
    /\ currentTrack = t
    /\ currentSound # NoSound
    /\ JsLoaded(currentSound)

\* The step is one of tasks[i]: it ends, or goes on to its next await.
Advances(i) ==
    \/ Ends(i)
    \/ Len(tasks') = Len(tasks) /\ tasks'[i].pc # tasks[i].pc

\* tasks[i] is the stopSound that a removal has called, waiting at pc.
RemovalStopAt(i, pc) ==
    /\ tasks[i].op = "stop"
    /\ tasks[i].via = "remove"
    /\ tasks[i].pc = pc

DeletesPlaying(p) ==
    /\ DeletePlaylist(p)
    /\ currentSound # NoSound
    /\ JsLoaded(currentSound)
    /\ sounds[currentSound].queue = playlists[p].tracks

\* C16: deleting the playlist that is being played calls stopSound on the
\* active sound, as the removal of the loaded track does.
DeletePlayingStops ==
    [][\A p \in 1 .. Len(playlists) :
          DeletesPlaying(p)
             => /\ Len(tasks') > Len(tasks)
                /\ tasks'[Len(tasks')].op = "stop"
                /\ tasks'[Len(tasks')].env.cs = currentSound]_vars

\* How many times the track t occurs in the track list seq.
Occurrences(seq, t) == Cardinality({k \in DOMAIN seq : seq[k] = t})

\* C17: adding a track a second time changes nothing: the tracks of a
\* playlist with t added twice are those with t added once; every
\* addToPlaylist(t, p) saves a playlist p with exactly one t, and it saves
\* the collection as it is when p has t already.
AddTrackIdempotent ==
    [][\A p \in 1 .. Len(playlists) : \A t \in Tracks :
          /\ AddTrack(AddTrack(playlists[p].tracks, t), t)
                = AddTrack(playlists[p].tracks, t)
          /\ AddToPlaylist(t, p)
                => LET updated == tasks'[Len(tasks')].updated IN
                   /\ Occurrences(updated[p].tracks, t) = 1
                   /\ Occurrences(playlists[p].tracks, t) = 1
                         => updated = playlists]_vars

\* C17: a track that the stored playlist p did not have has been added and
\* saved, and a second addToPlaylist of it is saving the same collection.
AddedTwice ==
    \E i \in 1 .. Len(tasks) : \E p \in 1 .. Len(playlists) :
        /\ tasks[i].via = "add"
        /\ p \in 1 .. Len(StoredPlaylists)
        /\ Occurrences(StoredPlaylists[p].tracks, tasks[i].index) = 0
        /\ Occurrences(playlists[p].tracks, tasks[i].index) = 1
        /\ stored = playlists
        /\ tasks[i].updated = playlists

\* No track id occurs twice in the track list seq.
Distinct(seq) == \A j, k \in DOMAIN seq : j # k => seq[j] # seq[k]

\* C18: the track ids of every playlist are pairwise distinct, in the
\* collection in memory, in the persisted one and in every collection that
\* is being saved.
TrackIdsDistinct ==
    /\ \A p \in 1 .. Len(playlists) : Distinct(playlists[p].tracks)
    /\ \A p \in 1 .. Len(stored) : Distinct(stored[p].tracks)
    /\ \A i \in 1 .. Len(tasks) : \A p \in 1 .. Len(tasks[i].updated) :
          Distinct(tasks[i].updated[p].tracks)

\* C18: a playlist created in this run has been given a track and the track
\* list of a stored playlist has changed, in memory and in the persisted
\* record alike.
StoreMutated ==
    /\ playlists = stored
    /\ \E p \in 1 .. Len(playlists) :
          /\ playlists[p].id > Len(StoredPlaylists)
          /\ Len(playlists[p].tracks) = 1
    /\ \E p \in 1 .. Len(playlists) :
          /\ p \in 1 .. Len(StoredPlaylists)
          /\ playlists[p].id = StoredPlaylists[p].id
          /\ Len(playlists[p].tracks) # Len(StoredPlaylists[p].tracks)

\* C19: when AsyncStorage.setItem rejects for a save, the collection in
\* memory is the mutated one all the same and the persisted one is kept.
FailedSaveKeepsMutation ==
    [][\A i \in 1 .. Len(tasks) :
          PlaylistSaveFail(i)
             => /\ playlists' = tasks[i].updated
                /\ stored' = stored]_vars

\* C20: the ids of the playlists are pairwise distinct, in memory and in
\* the persisted collection, whatever the clock reads at each create.
PlaylistIdsDistinct ==
    /\ \A j, k \in 1 .. Len(playlists) :
          j # k => playlists[j].id # playlists[k].id
    /\ \A j, k \in 1 .. Len(stored) :
          j # k => stored[j].id # stored[k].id

\* The step is a togglePlayPause call: the play/pause button of either
\* screen, or the notification action that reaches togglePlayPause.
ToggleCalled ==
    \/ PressPlayPause
    \/ PlaylistPressPlayPause
    \/ HandleNotificationResponse("play")
    \/ HandleNotificationResponse("pause")
    \/ PlaylistHandleNotificationResponse("play-pause")

\* A track is loaded: a position is set and the active sound is loaded.
TrackLoaded ==
    /\ Position # NoIndex
    /\ currentSound # NoSound
    /\ JsLoaded(currentSound)

\* tasks[i] is a togglePlayPause waiting for pauseAsync or playAsync, alone,
\* with the session as its call found it.
ToggleAlone(i) ==
    /\ tasks[i].op = "toggle"
    /\ tasks[i].pc \in {"pause", "resume", "plPause", "plResume"}
    /\ SessionTasks = {i}
    /\ tasks[i].env.cs = currentSound
    /\ tasks[i].env.ip = isPlaying
    /\ TrackLoaded

\* C21: a togglePlayPause called with no position calls nothing on a sound,
\* issues and dismisses no notification and keeps the playing flag; called
\* alone with a track loaded it pauses when playing and resumes when paused,
\* and the return of that call flips the playing flag and the sound with it,
\* the position, the active sound and the playlists staying as they are (a
\* pauseAsync or playAsync that fails ends the call instead of returning).
ToggleFlipsOnlyWhenLoaded ==
    [][/\ (ToggleCalled /\ Position = NoIndex)
            => UNCHANGED <<tasks, sounds, visible, notificationIdRef, isPlaying,
                           currentSound, currentTrackIndex, currentIndex>>
       /\ ((PressPlayPause \/ PlaylistPressPlayPause)
              /\ TrackLoaded /\ SessionTasks = {})
            => /\ Len(tasks') = Len(tasks) + 1
               /\ tasks'[Len(tasks')].op = "toggle"
               /\ tasks'[Len(tasks')].env.cs = currentSound
               /\ (tasks'[Len(tasks')].pc \in {"pause", "plPause"}) <=> isPlaying
               /\ UNCHANGED <<sounds, isPlaying, currentSound, currentTrackIndex,
                              currentIndex, currentTrack>>
       /\ \A i \in 1 .. Len(tasks) :
            (ToggleAlone(i) /\ Advances(i) /\ ~Ends(i))
              => /\ isPlaying' = ~isPlaying
                 /\ (tasks[i].pc \in {"pause", "plPause"}) <=> isPlaying
                 /\ sounds'[currentSound].st
                       = IF isPlaying THEN "paused" ELSE "playing"
                 /\ UNCHANGED <<currentSound, currentTrackIndex, currentIndex,
                                currentTrack, playlists, selectedPlaylist>>
      ]_vars

\* C21: a togglePlayPause has paused the loaded track and is refreshing the
\* notification: the playing flag is off, the sound paused and still the
\* active one, the position kept.
ToggledToPaused ==
    \E i \in 1 .. Len(tasks) :
        /\ tasks[i].op = "toggle"
        /\ tasks[i].pc \in {"dismiss", "schedule", "plDismiss", "plSchedule"}
        /\ tasks[i].env.ip
        /\ ~isPlaying
        /\ currentSound = tasks[i].env.cs
        /\ sounds[currentSound].st = "paused"
        /\ Position # NoIndex

\* The step is next() or previous() called with an empty queue: the buttons
\* of the playlist screen hand over the tracks of the selected playlist, the
\* notification listeners the queue of the render they were defined in.
CalledOnEmptyQueue ==
    \/ (PlaylistPressNext \/ PlaylistPressPrevious) /\ selectedPlaylist.tracks = <<>>
    \/ /\ listener.queue = <<>>
       /\ \/ PlaylistHandleNotificationResponse("next")
          \/ PlaylistHandleNotificationResponse("previous")
    \/ /\ FirstRender.n = 0
       /\ \/ HandleNotificationResponse("next")
          \/ HandleNotificationResponse("previous")

\* C22: next() and previous() called with an empty queue, while no other
\* operation is in flight, acquire and release no sound and leave position,
\* playing flag and notification as they are.
EmptyQueueNoop ==
    [][(CalledOnEmptyQueue /\ SessionTasks = {})
          => UNCHANGED <<sounds, tasks, currentSound, isPlaying, currentTrackIndex,
                         currentIndex, currentTrack, visible, notificationIdRef>>
      ]_vars

\* C23: in the music player screen a sound loaded by playSound(index, true),
\* as next() and previous() call it, advances when it completes as the
\* active sound with no operation in flight: its completion starts the play
\* of the following queue entry.
NextLoadedAutoAdvances ==
    [][\A h \in 1 .. Len(sounds) :
          (/\ screen = "player"
           /\ Completes(h)
           /\ currentSound = h
           /\ sounds[h].fromNext
           /\ SessionTasks = {})
             => StartsPlay(WrapNext(sounds[h].idx, NumTracks))]_vars

\* The step starts a togglePlayPause on the active sound, pausing it when
\* playing and resuming it when paused.
StartsToggle ==
    /\ Len(tasks') = Len(tasks) + 1
    /\ tasks'[Len(tasks')].op = "toggle"
    /\ tasks'[Len(tasks')].env.cs = currentSound
    /\ (tasks'[Len(tasks')].pc \in {"pause", "plPause"}) <=> isPlaying

\* The step starts a playSound for index that tears down the active sound.
StartsPlayFromActive(index) ==
    /\ StartsPlay(index)
    /\ tasks'[Len(tasks')].env.cs = currentSound

\* C24: a notification action that arrives while a track is loaded and no
\* operation is in flight is applied to the session as it is then: 'pause'
\* while playing and 'play' while paused (play-pause in the playlist screen)
\* start the toggle of the active sound; 'next' and 'previous' start the
\* play of the neighbour of the current position and tear down the active
\* sound.
NotificationActionsApply ==
    [][(TrackLoaded /\ SessionTasks = {})
         => /\ (HandleNotificationResponse("pause") /\ isPlaying) => StartsToggle
            /\ (HandleNotificationResponse("play") /\ ~isPlaying) => StartsToggle
            /\ HandleNotificationResponse("next")
                 => StartsPlayFromActive(WrapNext(currentTrackIndex, NumTracks))
            /\ HandleNotificationResponse("previous")
                 => StartsPlayFromActive(WrapPrevious(currentTrackIndex, NumTracks))
            /\ PlaylistHandleNotificationResponse("play-pause") => StartsToggle
            /\ (/\ PlaylistHandleNotificationResponse("next")
                /\ currentIndex < Len(selectedPlaylist.tracks) - 1)
                 => StartsPlayFromActive(currentIndex + 1)
            /\ (PlaylistHandleNotificationResponse("previous") /\ currentIndex > 0)
                 => StartsPlayFromActive(currentIndex - 1)
      ]_vars

\* C25: when the screen is left with no operation in flight, the sound that
\* is active then is unloaded and the notification the ref names is being
\* dismissed; and once the cleanup has ended, no sound is left open and no
\* notification visible.
UnmountReleases ==
    [][/\ (Unmount /\ SessionTasks = {} /\ currentSound # NoSound)
            => sounds'[currentSound].st \in {"unloading", "unloaded"}
       /\ (Unmount /\ SessionTasks = {} /\ notificationIdRef # NoNotif)
            => \E i \in 1 .. Len(tasks') :
                  tasks'[i].op = "cleanup" /\ tasks'[i].nid = notificationIdRef
       /\ (~mounted' /\ SessionTasks' = {})
            => (OpenSounds' = {} /\ visible' = {})
      ]_vars

\* The notification the ref names is visible.
TokenVisible == \E v \in visible : v.id = notificationIdRef

\* C26: while the screen is mounted and one operation at most is in flight,
\* a step that dismisses the notification the ref names clears the ref, a
\* step that shows a notification puts its id into the ref, and between
\* operations the ref is non-null exactly when a notification is visible.
TokenTracksNotification ==
    [][(mounted /\ Cardinality(SessionTasks) <= 1)
         => /\ (TokenVisible /\ ~TokenVisible')
                 => notificationIdRef' = NoNotif
            /\ \A v \in visible' \ visible : notificationIdRef' = v.id
            /\ SessionTasks' = {}
                 => ((notificationIdRef' # NoNotif) <=> (visible' # {}))
      ]_vars

\* C27: no sound plays to its end before its status callback is registered:
\* every completion of a sound is delivered to its callback.
NoUnheardCompletion ==
    \A h \in 1 .. Len(sounds) : sounds[h].st # "ended"

\* The step is pauseAsync or playAsync failing in the togglePlayPause
\* tasks[i]: the call ends where it waited for the sound.
ToggleCallFails(i) ==
    /\ tasks[i].op = "toggle"
    /\ tasks[i].pc \in {"pause", "resume", "plPause", "plResume"}
    /\ Ends(i)

\* C31: when pauseAsync or playAsync fails in a togglePlayPause, the playing
\* flag, the position, the loaded track, the active sound and the queue keep
\* their values, no sound changes its state and the notification is left as
\* it is; and when the call was alone, they are what the call found.
ToggleFailureKeepsSession ==
    [][\A i \in 1 .. Len(tasks) :
          ToggleCallFails(i)
             => /\ UNCHANGED <<isPlaying, currentTrackIndex, currentIndex,
                               currentTrack, currentSound, shouldPlayNext,
                               selectedPlaylist, playlists, sounds,
                               notificationIdRef, visible>>
                /\ ToggleAlone(i)
                      => /\ isPlaying' = tasks[i].env.ip
                         /\ currentSound' = tasks[i].env.cs
                         /\ TrackLoaded']_vars

\* C31: a togglePlayPause called alone on the loaded track waits for
\* pauseAsync or playAsync, which may fail.
ToggleAboutToFail ==
    \E i \in 1 .. Len(tasks) :
        /\ ToggleAlone(i)
        /\ IF screen = "player" THEN ENABLED ToggleFail(i)
                                ELSE ENABLED PlaylistToggleFail(i)

\* The queue the play call that loaded the active sound was given.
RecordedQueue == sounds[currentSound].queue

\* The step starts the playSound of the entry at index of the recorded
\* queue, with that queue.
StartsPlayOfRecorded(index) ==
    /\ StartsPlay(index)
    /\ tasks'[Len(tasks')].queue = RecordedQueue
    /\ TrackOf(tasks'[Len(tasks')]) = RecordedQueue[index + 1]

\* C35: in the multi-playlist screen, with a track loaded and no operation
\* in flight, next() at a position before the last of the recorded queue
\* starts the play of the recorded queue's following entry, and previous()
\* at a position after the first that of the entry before, from the
\* now-playing controls and from the notification alike, whatever playlist
\* is selected by then.
NextFollowsRecordedQueue ==
    [][(screen = "playlist" /\ TrackLoaded /\ SessionTasks = {})
         => /\ (/\ PlaylistPressNext \/ PlaylistHandleNotificationResponse("next")
                /\ currentIndex < Len(RecordedQueue) - 1)
                 => StartsPlayOfRecorded(currentIndex + 1)
            /\ (/\ PlaylistPressPrevious
                   \/ PlaylistHandleNotificationResponse("previous")
                /\ currentIndex > 0)
                 => StartsPlayOfRecorded(currentIndex - 1)
      ]_vars

\* The step is playNext called with a playlist whose last index is the
\* position: from the now-playing controls with the selected playlist, from
\* the notification with the playlist of the listener's render.
NextCalledAtLast ==
    \/ PlaylistPressNext /\ currentIndex = Len(selectedPlaylist.tracks) - 1
    \/ /\ PlaylistHandleNotificationResponse("next")
       /\ currentIndex = Len(listener.queue) - 1

\* The step is playPrevious called while the position is 0 or none.
PreviousCalledAtFirst ==
    /\ PlaylistPressPrevious \/ PlaylistHandleNotificationResponse("previous")
    /\ currentIndex \in {0, NoIndex}

\* C36: in the multi-playlist screen playNext called at the last index of
\* its playlist and playPrevious called at position 0 or none, while no
\* operation is in flight, release and acquire no sound, start no call and
\* keep position, loaded track, playing flag and notification.
BoundaryCallsNoop ==
    [][(/\ screen = "playlist"
        /\ SessionTasks = {}
        /\ NextCalledAtLast \/ PreviousCalledAtFirst)
          => UNCHANGED <<sounds, tasks, currentSound, isPlaying, currentIndex,
                         currentTrack, visible, notificationIdRef>>]_vars

----------------------------------------------------------------------------
(* The load of the catalog: fetchAllAudioFiles and the mount effect that   *)
(* calls it, one step per await.                                           *)

\* Everything but the catalog.
mountedScreen == <<session, notificationIdRef, sounds, visible, tasks, calls,
                   screen, currentTrack, currentIndex, playlists,
                   selectedPlaylist, store, listener, mounted, single>>

\* The answers of MediaLibrary.requestPermissionsAsync().
Statuses == {"granted", "denied", "undetermined"}

\* The media libraries of the model: every sequence of distinct assets.
Libraries ==
    {s \in UNION {[1 .. n -> Tracks] : n \in 0 .. NumTracks} : Distinct(s)}

\* A load that enumerates whatever the permission is.
GrantedAlways(status) == TRUE

\* status === 'granted'
Granted(status) == status = "granted"

\* A load that puts every new page in front of the earlier ones.
AccumulateReversed(all, assets) == assets \o all

\* allAudioFiles = [...allAudioFiles, ...media.assets]
Accumulate(all, assets) == all \o assets

\* The track the music player screen makes of an asset: no metadata lookup.
Track(asset) == [id |-> asset, title |-> "filename"]

\* The item the playlist screen makes of an asset and its metadata:
\* metadata.title || item.filename, metadata.artist.
PlaylistItem(asset) ==
    [id     |-> asset,
     title  |-> IF asset \in device.titled THEN "title" ELSE "filename",
     artist |-> IF asset \in device.titled THEN "artist" ELSE "undefined"]

\* The call of fetchAllAudioFiles by the mount effect of a fresh screen.
Loading(loads, denials) ==
    [pc |-> "permission", after |-> NoCursor, all |-> <<>>, requests |-> <<>>,
     result |-> <<>>, musicFiles |-> <<>>, filteredMusicFiles |-> <<>>,
     loads |-> loads, denials |-> denials]

InitCatalog ==
    /\ SessionIdle
    /\ device \in [status : Statuses, library : Libraries,
                   failing : SUBSET Tracks, titled : SUBSET Tracks]
    /\ loader = Loading(1, 0)

\* requestPermissionsAsync resolves: [] unless granted, else the request of
\* the first page.
PermissionDone ==
    /\ loader.pc = "permission"
    /\ loader' = IF Granted(device.status)
                 THEN [loader EXCEPT !.pc = "page", !.requests = <<NoCursor>>]
                 ELSE [loader EXCEPT !.pc = "done", !.denials = @ + 1]
    /\ UNCHANGED <<device, mountedScreen>>

\* getAssetsAsync resolves with a page: it is accumulated, and the next page
\* is requested after its endCursor while it has a next page; after the last
\* page the music player screen maps the assets and sets musicFiles, the
\* playlist screen looks up the metadata of every asset.
PageDone ==
    /\ loader.pc = "page"
    /\ LET media == GetAssets(device.library, loader.after)
           all == Accumulate(loader.all, media.assets) IN
       loader' =
          IF media.hasNextPage
          THEN [loader EXCEPT !.all = all, !.after = media.endCursor,
                              !.requests = Append(@, media.endCursor)]
          ELSE IF screen = "player"
               THEN [loader EXCEPT !.all = all, !.pc = "done",
                        !.result = [k \in DOMAIN all |-> Track(all[k])],
                        !.musicFiles = [k \in DOMAIN all |-> Track(all[k])],
                        !.filteredMusicFiles = [k \in DOMAIN all |-> Track(all[k])]]
               ELSE [loader EXCEPT !.all = all, !.pc = "metadata"]
    /\ UNCHANGED <<device, mountedScreen>>

\* Every getAssetInfoAsync has resolved: Promise.all resolves with the items
\* in the order of the assets.
MetadataDone ==
    /\ loader.pc = "metadata"
    /\ \A k \in DOMAIN loader.all : loader.all[k] \notin device.failing
    /\ loader' = [loader EXCEPT !.pc = "done",
                     !.result = [k \in DOMAIN loader.all |-> PlaylistItem(loader.all[k])],
                     !.musicFiles = [k \in DOMAIN loader.all |-> PlaylistItem(loader.all[k])]]
    /\ UNCHANGED <<device, mountedScreen>>

\* A getAssetInfoAsync rejects: Promise.all rejects, and so do
\* fetchAllAudioFiles and the initialize() that awaits it.
MetadataFail ==
    /\ loader.pc = "metadata"
    /\ \E k \in DOMAIN loader.all : loader.all[k] \in device.failing
    /\ loader' = [loader EXCEPT !.pc = "failed"]
    /\ UNCHANGED <<device, mountedScreen>>

\* The screen is mounted anew, the permission being what the user has made
\* of it: the mount effect loads the catalog again.
Reload ==
    /\ loader.pc \in {"done", "failed"}
    /\ loader.loads < MaxLoads
    /\ \E status \in Statuses : device' = [device EXCEPT !.status = status]
    /\ loader' = Loading(loader.loads + 1, loader.denials)
    /\ UNCHANGED mountedScreen

NextCatalog ==
    \/ PermissionDone
    \/ PageDone
    \/ MetadataDone
    \/ MetadataFail
    \/ Reload

CatalogSpec == InitCatalog /\ [][NextCatalog]_vars

\* The ids of the entries of a catalog, in order.
Ids(entries) == [k \in DOMAIN entries |-> entries[k].id]

\* The user has granted the access to the media library.
AccessGranted == device.status = "granted"

\* The load in flight has passed the permission request.
PastPermission == loader.pc \in {"page", "metadata", "done", "failed"}

\* C28: a load whose permission request is not granted ends at once with
\* the empty catalog and has requested no page; and the load that follows a
\* denied one, once granted, requests pages again.
DeniedLoadsNothing ==
    /\ (PastPermission /\ ~AccessGranted)
          => /\ loader.pc = "done"
             /\ loader.result = <<>>
             /\ loader.musicFiles = <<>>
             /\ loader.requests = <<>>
             /\ loader.all = <<>>
    /\ (PastPermission /\ AccessGranted)
          => loader.requests # <<>>

\* C28: the permission has been denied over a media library that holds
\* every track, and the load has ended with no track and no page request.
DeniedCatalogEmpty ==
    /\ device.status = "denied"
    /\ Len(device.library) = NumTracks
    /\ loader.pc = "done"
    /\ loader.denials = 1
    /\ loader.result = <<>>
    /\ loader.requests = <<>>

\* The number of pages of the media library: one even when it is empty.
NumPages ==
    IF device.library = <<>>
    THEN 1
    ELSE (Len(device.library) + PageSize - 1) \div PageSize

\* The page requests made so far follow the cursors: the first has no
\* cursor, each other one the endCursor of the page before, which had a next
\* page.
RequestsFollowCursors ==
    /\ loader.requests[1] = NoCursor
    /\ \A k \in 2 .. Len(loader.requests) :
          LET before == GetAssets(device.library, loader.requests[k - 1]) IN
          before.hasNextPage /\ loader.requests[k] = before.endCursor

\* C29: a granted load requests the pages along their cursors and never
\* more than the library has; it goes on while a step is left to take; when
\* the last page has come the accumulated assets are the library, each
\* asset once and in page order, and the last request was for a page with
\* no next page; the catalog returned has one entry per asset in that order.
PaginationConcatenates ==
    (PastPermission /\ AccessGranted)
       => /\ RequestsFollowCursors
          /\ Len(loader.requests) <= NumPages
          /\ loader.pc \in {"page", "metadata"} => ENABLED NextCatalog
          /\ loader.pc # "page"
                => /\ loader.all = device.library
                   /\ Len(loader.requests) = NumPages
                   /\ ~GetAssets(device.library,
                                 loader.requests[Len(loader.requests)]).hasNextPage
          /\ loader.pc = "done"
                => /\ Ids(loader.result) = device.library
                   /\ loader.musicFiles = loader.result

\* C29: a library of more than one page has been loaded to its end, in
\* either screen, by as many requests as it has pages.
LoadedAllPages ==
    /\ AccessGranted
    /\ Len(device.library) > PageSize
    /\ loader.pc = "done"
    /\ Len(loader.requests) > 1
    /\ Ids(loader.result) = device.library

\* C30: in the playlist screen a granted load ends with an entry for every
\* asset even when the metadata lookup of an asset fails, the entry of such
\* an asset having the filename as title and an unknown artist.
MetadataFailureTolerated ==
    (screen = "playlist" /\ AccessGranted
       /\ loader.pc \in {"done", "failed"})
       => /\ loader.pc = "done"
          /\ Ids(loader.result) = device.library
          /\ \A k \in DOMAIN loader.result :
                loader.result[k].id \in device.failing
                   => /\ loader.result[k].title = "filename"
                      /\ loader.result[k].artist \in {"undefined", "Unknown"}

----------------------------------------------------------------------------
(* The playlist store: its mutations, their saves, and the restart of the  *)
(* application, which loses whatever was in memory only.                   *)

\* The process is killed and started again: every suspended invocation and
\* every sound is gone with it, the component state is that of a first
\* render, and the mount effect has loaded the catalog again and waits for
\* AsyncStorage.getItem in loadPlaylists.
Restart ==
    /\ screen = "playlist"
    /\ loader.loads < MaxLoads
    /\ loader' = [loader EXCEPT !.loads = @ + 1]
    /\ currentSound' = NoSound
    /\ isPlaying' = FALSE
    /\ currentTrack' = NoTrack
    /\ currentIndex' = NoIndex
    /\ notificationIdRef' = NoNotif
    /\ sounds' = <<>>
    /\ playlists' = <<>>
    /\ selectedPlaylist' = NoPlaylist
    /\ listener' = [cs |-> NoSound, ip |-> FALSE, ci |-> NoIndex, ct |-> NoTrack,
                    queue |-> <<>>]
    /\ mounted' = TRUE
    /\ tasks' = <<[TaskOf("load", "plLoad", NoClosure, NoIndex, FALSE, NoSound,
                          "mount", <<>>) EXCEPT !.active0 = NoSound]>>
    /\ UNCHANGED <<store, visible, calls, device, screen, currentTrackIndex,
                   shouldPlayNext, single>>

\* A loadPlaylists that sets nothing.
LoadPlaylistsNothing(i) ==
    /\ tasks[i].pc = "plLoad"
    /\ tasks' = RemoveAt(tasks, i)
    /\ UNCHANGED <<playlistSession, playerOnly, store, notificationIdRef, sounds,
                   visible, calls, playlists, selectedPlaylist>>

\* AsyncStorage.getItem resolves in loadPlaylists:
\* setPlaylists(JSON.parse(savedPlaylists)).
LoadPlaylistsDone(i) ==
    /\ tasks[i].pc = "plLoad"
    /\ playlists' = stored
    /\ tasks' = RemoveAt(tasks, i)
    /\ UNCHANGED <<playlistSession, playerOnly, store, notificationIdRef, sounds,
                   visible, calls, selectedPlaylist>>

\* AsyncStorage.getItem rejects: the catch logs, playlists stays [].
LoadPlaylistsFail(i) ==
    /\ tasks[i].pc = "plLoad"
    /\ tasks' = RemoveAt(tasks, i)
    /\ UNCHANGED <<playlistSession, playerOnly, store, notificationIdRef, sounds,
                   visible, calls, playlists, selectedPlaylist>>

InitStore == Init /\ screen = "playlist"

NextStore ==
    \/ \E p \in 1 .. Len(playlists) : SelectPlaylist(p)
    \/ \E text \in Typed : CreatePlaylist(text)
    \/ \E p \in 1 .. Len(playlists) : DeletePlaylist(p)
    \/ \E trackId \in Tracks, p \in 1 .. Len(playlists) : AddToPlaylist(trackId, p)
    \/ \E trackId \in Tracks : RemoveFromPlaylist(trackId)
    \/ \E text \in Typed : EditPlaylistTitle(text)
    \/ \E i \in 1 .. Len(tasks) : PlaylistSaveDone(i)
    \/ \E i \in 1 .. Len(tasks) : PlaylistSaveFail(i)
    \/ Restart
    \/ \E i \in 1 .. Len(tasks) : LoadPlaylistsDone(i)
    \/ \E i \in 1 .. Len(tasks) : LoadPlaylistsFail(i)

StoreSpec == InitStore /\ [][NextStore]_vars

\* The saves in flight.
Saves == {i \in 1 .. Len(tasks) : tasks[i].op = "save"}

\* The step is the successful end of the save tasks[i].
SaveCompletes(i) ==
    /\ i \in Saves
    /\ Ends(i)
    /\ stored' = tasks[i].updated

\* The application has been restarted.
Restarted == loader.loads > 1

\* C32: the persisted collection is at every moment the one the last
\* successful save has written: only the successful end of a save changes
\* it, to the collection that save was given; a restart keeps it and drops
\* the saves in flight; the load after the restart sets the collection in
\* memory to it; and as the collection in memory is the persisted one (or,
\* after a restart, still empty), a crash loses nothing the screen showed
\* before the mutations whose saves were in flight.
RestartRestoresLastSave ==
    [][/\ stored' # stored => \E i \in 1 .. Len(tasks) : SaveCompletes(i)
       /\ Restart => (stored' = stored /\ Saves' = {})
       /\ \A i \in 1 .. Len(tasks) :
             LoadPlaylistsDone(i) => (playlists' = stored /\ stored' = stored)
       /\ \/ playlists' = stored'
          \/ Restarted' /\ playlists' = <<>>
      ]_vars

\* C32: a save has completed, the application has been restarted, and the
\* load has restored the saved collection.
RestoredAfterRestart ==
    /\ Restarted
    /\ tasks = <<>>
    /\ stored # StoredPlaylists
    /\ playlists = stored

\* The collection the call made in this step has handed to savePlaylists.
Saving == tasks'[Len(tasks')].updated

\* The track ids of a track list.
IdsOf(seq) == {seq[k] : k \in DOMAIN seq}

\* C33: an addToPlaylist called while the save of an earlier addToPlaylist
\* is in flight saves a collection that has the effect of both: every
\* track of every playlist of the collection being saved is in the same
\* playlist of the collection the new call saves.
NoMutationLost ==
    [][\A t \in Tracks : \A p \in 1 .. Len(playlists) :
          AddToPlaylist(t, p)
             => \A i \in Saves :
                   tasks[i].via = "add"
                      => \A q \in DOMAIN tasks[i].updated :
                            IdsOf(tasks[i].updated[q].tracks)
                               \subseteq IdsOf(Saving[q].tracks)]_vars

----------------------------------------------------------------------------
(* The single-playlist component of PlaylistScreen.tsx: one `playlist`,    *)
(* played from its rows and from the song list of the catalog.  Its        *)
(* playSound, stopSound, togglePlayPause, notification and completion code *)
(* is that of the multi-playlist component, whose steps it shares.         *)

\* The playlist an earlier run has saved.
StoredPlaylist == <<0, 1>>

InitSingle ==
    /\ NoSession
    /\ LoadedCatalog
    /\ screen = "single"
    /\ playlists = <<>>
    /\ single \in {[playlist |-> p, stored |-> p] : p \in {<<>>, StoredPlaylist}}

\* What the handlers of the single-playlist component leave alone besides
\* the session.
singleFrame == <<screen, currentTrackIndex, shouldPlayNext, mounted, catalog,
                 store, playlists, selectedPlaylist>>

\* A row of the song list is tapped: playSound(item, playlist.length).
SingleTapSong(trackId) ==
    /\ screen = "single"
    /\ MayCall
    /\ calls' = calls + 1
    /\ sounds' = UnloadCalled(sounds, currentSound)
    /\ tasks' = Append(tasks,
          [TaskOf("play", IF currentSound # NoSound THEN "plUnload" ELSE "plCreate",
                  PlaylistClosure(PlaylistEnv), Len(single.playlist), FALSE,
                  NoSound, "song", single.playlist)
              EXCEPT !.track = trackId])
    /\ UNCHANGED <<playlistSession, singleFrame, single, notificationIdRef, visible>>

\* A row of the playlist is tapped: playSound(item, index).
SingleTapRow(index) ==
    /\ screen = "single"
    /\ MayCall
    /\ calls' = calls + 1
    /\ index \in 0 .. (Len(single.playlist) - 1)
    /\ PlaylistPlaySound(sounds, PlaylistEnv, index, single.playlist, NoSound, "tap")
    /\ UNCHANGED <<playlistSession, singleFrame, single, notificationIdRef, visible>>

\* savePlaylist(newPlaylist) up to its await of AsyncStorage.setItem.
SingleSaveTask(newPlaylist) ==
    [TaskOf("save", "sgSave", NoClosure, NoIndex, FALSE, NoSound, "store", <<>>)
        EXCEPT !.updated = newPlaylist]

\* The + of a row of the song list: addToPlaylist(item).
SingleAddToPlaylist(trackId) ==
    /\ screen = "single"
    /\ MayCall
    /\ calls' = calls + 1
    /\ LET newPlaylist == AddTrack(single.playlist, trackId) IN
       IF newPlaylist # single.playlist
       THEN /\ single' = [single EXCEPT !.playlist = newPlaylist]
            /\ tasks' = Append(tasks, SingleSaveTask(newPlaylist))
       ELSE UNCHANGED <<single, tasks>>
    /\ UNCHANGED <<playlistSession, singleFrame, notificationIdRef, sounds, visible>>

\* The remove button of a row of the playlist: removeFromPlaylist(item.id).
SingleRemoveFromPlaylist(trackId) ==
    /\ screen = "single"
    /\ mounted
    /\ calls < MaxCalls
    /\ calls' = calls + 1
    /\ trackId \in IdsOf(single.playlist)
    /\ LET newPlaylist == Without(single.playlist, trackId)
           stop == IF currentTrack = trackId
                   THEN PlaylistStopTasks(PlaylistEnv, NoSound, "remove")
                   ELSE <<>> IN
       /\ Len(tasks) + 1 + Len(stop) <= MaxTasks
       /\ single' = [single EXCEPT !.playlist = newPlaylist]
       /\ tasks' = (tasks \o <<SingleSaveTask(newPlaylist)>>) \o stop
    /\ UNCHANGED <<playlistSession, singleFrame, notificationIdRef, sounds, visible>>

\* AsyncStorage.setItem resolves in savePlaylist.
SingleSaveDone(i) ==
    /\ tasks[i].pc = "sgSave"
    /\ single' = [single EXCEPT !.stored = tasks[i].updated]
    /\ tasks' = RemoveAt(tasks, i)
    /\ UNCHANGED <<playlistSession, singleFrame, notificationIdRef, sounds, visible,
                   calls>>

\* AsyncStorage.setItem rejects in savePlaylist: the catch logs.
SingleSaveFail(i) ==
    /\ tasks[i].pc = "sgSave"
    /\ tasks' = RemoveAt(tasks, i)
    /\ UNCHANGED <<playlistSession, singleFrame, single, notificationIdRef, sounds,
                   visible, calls>>

NextSingle ==
    \/ \E trackId \in Tracks : SingleTapSong(trackId)
    \/ \E index \in Tracks : SingleTapRow(index)
    \/ \E trackId \in Tracks : SingleAddToPlaylist(trackId)
    \/ \E trackId \in Tracks : SingleRemoveFromPlaylist(trackId)
    \/ \E i \in 1 .. Len(tasks) : SingleSaveDone(i)
    \/ \E i \in 1 .. Len(tasks) : SingleSaveFail(i)
    \/ PlaylistPressNext
    \/ PlaylistPressPrevious
    \/ PlaylistPressPlayPause
    \/ \E action \in {"play-pause", "next", "previous"} :
          PlaylistHandleNotificationResponse(action)
    \/ \E i \in 1 .. Len(tasks) : PlaylistUnloadDone(i)
    \/ \E i \in 1 .. Len(tasks) : PlaylistCreateDone(i)
    \/ \E i \in 1 .. Len(tasks) : PlaylistCreateFail(i)
    \/ \E i \in 1 .. Len(tasks) : PlaylistDismissDone(i)
    \/ \E i \in 1 .. Len(tasks) : PlaylistScheduleDone(i)
    \/ \E i \in 1 .. Len(tasks) : PlaylistPlayDone(i)
    \/ \E i \in 1 .. Len(tasks) : PlaylistToggleDone(i)
    \/ \E i \in 1 .. Len(tasks) : PlaylistToggleFail(i)
    \/ \E i \in 1 .. Len(tasks) : PlaylistStopDone(i)
    \/ \E i \in 1 .. Len(tasks) : PlaylistStopFail(i)
    \/ \E i \in 1 .. Len(tasks) : PlaylistStopUnloadDone(i)
    \/ \E i \in 1 .. Len(tasks) : PlaylistStopDismissDone(i)
    \/ \E h \in 1 .. Len(sounds) : PlaylistFinish(h)

SingleSpec == InitSingle /\ [][NextSingle]_vars

\* C34: in the single-playlist component the position is none or an index
\* of the playlist, and the loaded track is the playlist's entry at it,
\* also when the track was started from the song list.
PositionWithinQueue ==
    \/ currentIndex = NoIndex
    \/ /\ currentIndex \in 0 .. (Len(CurrentQueue) - 1)
       /\ currentTrack = CurrentQueue[currentIndex + 1]

\* The collection the mutation called in this step has handed to
\* savePlaylists (a removal may have appended its stopSound after it).
Updated == tasks'[Len(tasks) + 1].updated

\* The position of a track in a track list.
PosIn(seq, t) == CHOOSE k \in DOMAIN seq : seq[k] = t

\* sub has its tracks in the order they have in seq.
KeepsOrder(sub, seq) ==
    \A j, k \in DOMAIN sub : j < k => PosIn(seq, sub[j]) < PosIn(seq, sub[k])

\* The collection u has the playlists of the collection in memory, with
\* their ids, in their order.
SamePlaylists(u) ==
    /\ Len(u) = Len(playlists)
    /\ \A q \in DOMAIN u : u[q].id = playlists[q].id

\* The playlist the mutation names is in the collection.
Exists(playlistId) == \E q \in DOMAIN playlists : playlists[q].id = playlistId

\* C37: removeFromPlaylist(t, p) saves the collection in memory with t taken
\* out of the playlist with id p, its other tracks in their order, every
\* other playlist and every title as they are; editPlaylistTitle(p, text)
\* saves it with the trimmed text as the title of p, every other title and
\* every track list as they are; and both save the collection as it is
\* when no playlist has the id p.
RemoveAndRenameFrame ==
    [][/\ \A t \in Tracks :
            RemoveFromPlaylist(t)
              => /\ SamePlaylists(Updated)
                 /\ \A q \in DOMAIN playlists :
                       /\ Updated[q].title = playlists[q].title
                       /\ IF playlists[q].id = selectedPlaylist.id
                          THEN /\ IdsOf(Updated[q].tracks)
                                     = IdsOf(playlists[q].tracks) \ {t}
                               /\ KeepsOrder(Updated[q].tracks, playlists[q].tracks)
                               /\ Distinct(Updated[q].tracks)
                          ELSE Updated[q].tracks = playlists[q].tracks
                 /\ ~Exists(selectedPlaylist.id) => Updated = playlists
       /\ \A text \in Typed :
            EditPlaylistTitle(text)
              => /\ SamePlaylists(Updated)
                 /\ \A q \in DOMAIN playlists :
                       /\ Updated[q].tracks = playlists[q].tracks
                       /\ Updated[q].title
                             = IF playlists[q].id = selectedPlaylist.id
                               THEN Trim(text)
                               ELSE playlists[q].title
                 /\ ~Exists(selectedPlaylist.id) => Updated = playlists
      ]_vars

\* C37: a track that two playlists have has been removed from one of them,
\* a middle row of it, and that playlist renamed: both saves are in flight,
\* the first with the other tracks in their order and the other playlist
\* whole, the second with the new title and the track lists in memory.
RemovedAndRenamed ==
    /\ Len(tasks) = 2
    /\ tasks[1].op = "save" /\ tasks[2].via = "edit"
    /\ playlists = StoredPlaylists
    /\ tasks[1].updated[1].tracks = <<0, 2>>
    /\ tasks[1].updated[2] = playlists[2]
    /\ tasks[2].updated[1].title = NewTitle
    /\ tasks[2].updated[1].tracks = playlists[1].tracks
    /\ tasks[2].updated[2] = playlists[2]

----------------------------------------------------------------------------
(* The search field of the music player screen.                            *)

\* The filename of each audio file of the media library.
Filename(file) ==
    CASE file = 0 -> <<"A">>
      [] file = 1 -> <<"b">>
      [] OTHER    -> <<"a", "B">>

\* What may be typed in the search field.
Searches == {<<>>, <<"a">>, <<"B">>, <<"b", "a">>}

\* String.prototype.toLowerCase.
ToLowerCase(text) ==
    [k \in DOMAIN text |-> CASE text[k] = "A" -> "a"
                             [] text[k] = "B" -> "b"
                             [] OTHER         -> text[k]]

\* String.prototype.includes: part occurs in text at some offset.
Includes(text, part) ==
    \E from \in 0 .. (Len(text) - Len(part)) :
       \A k \in DOMAIN part : text[from + k] = part[k]

\* musicFiles.filter(file => file.filename.toLowerCase().includes(
\* text.toLowerCase())), or musicFiles for the empty text.
FilterFiles(musicFiles, text) ==
    IF text # <<>>
    THEN SelectSeq(musicFiles,
            LAMBDA file : Includes(ToLowerCase(Filename(file)), ToLowerCase(text)))
    ELSE musicFiles

\* handleSearch(text): the track list shows the files that match.
HandleSearch(text) ==
    /\ screen = "player"
    /\ mounted
    /\ loader' = [loader EXCEPT
                     !.filteredMusicFiles = FilterFiles(loader.musicFiles, text)]
    /\ UNCHANGED <<session, notificationIdRef, sounds, visible, tasks, calls,
                   screen, currentTrack, currentIndex, playlists,
                   selectedPlaylist, store, listener, mounted, device, single>>

InitSearch == Init /\ screen = "player"

\* The music player screen with its search field: the rows, the controls,
\* and the steps of the calls they start.
NextSearch ==
    \/ \E text \in Searches : HandleSearch(text)
    \/ \E index \in Tracks : TapTrack(index)
    \/ PressNext
    \/ PressPlayPause
    \/ \E i \in 1 .. Len(tasks) : StopDone(i)
    \/ \E i \in 1 .. Len(tasks) : UnloadDone(i)
    \/ \E i \in 1 .. Len(tasks) : CreateDone(i)
    \/ \E i \in 1 .. Len(tasks) : CreateFail(i)
    \/ \E i \in 1 .. Len(tasks) : DismissDone(i)
    \/ \E i \in 1 .. Len(tasks) : ScheduleDone(i)
    \/ \E i \in 1 .. Len(tasks) : PauseDone(i)
    \/ \E i \in 1 .. Len(tasks) : ResumeDone(i)
    \/ \E i \in 1 .. Len(tasks) : ToggleFail(i)

SearchSpec == InitSearch /\ [][NextSearch]_vars

\* The file shown in a row of the track list.
Shown(row) == loader.filteredMusicFiles[row + 1]

\* The file whose playback the call started by the step loads.
Started == loader.musicFiles[tasks'[Len(tasks) + 1].index + 1]

\* C38: a tap on a row of the music player screen's track list starts the
\* playback of the file that row shows, whatever the search field holds.
TapPlaysShownRow ==
    [][\A row \in Tracks :
          (TapTrack(row) /\ Len(tasks') = Len(tasks) + 1) => Started = Shown(row)]_vars

\* A title that a trim() leaves as it is and that is not empty.
ProperTitle(title) == title # "" /\ Trim(title) = title

\* C39: every playlist of the store has a non-empty trimmed title, whatever
\* was created and renamed: a create with a blank title adds none, and a
\* rename stores no empty title.
StoredTitlesProper ==
    /\ \A k \in DOMAIN stored : ProperTitle(stored[k].title)
    /\ \A k \in DOMAIN playlists : ProperTitle(playlists[k].title)

====
